---- MODULE Spec2Model ----
(***************************************************************************)
(* The in-memory file system of file-objects-rs: the Registry (a map from  *)
(* absolute paths to nodes), the shared content/mode cells of its files,   *)
(* and the open handles (FakeOpenFile) that clone a file's cells.          *)
(*                                                                         *)
(* A path is the sequence of its components below the root: "/" is <<>>,   *)
(* "/a/b" is <<"a","b">>.  A file node names its shared cells by an id     *)
(* into the heap `cells`; a handle holds the same id (the Arc clone).  A   *)
(* directory's mode cell is never cloned, so it is kept in the node.       *)
(***************************************************************************)
EXTENDS Integers, Sequences, FiniteSets, TLC

VARIABLES
    files,      \* Registry.files : path -> Node
    cwd,        \* Registry.cwd
    cells,      \* the live Arc cells of files: id -> [contents, mode]
    handles,    \* the caller's FakeOpenFile values: slot -> [id, pos, access]
    ret,        \* the call that has just run and its io::Result
    meta,       \* the FakeMetadata value the caller holds, if any
    listing,    \* the ReadDir value the caller holds, if any
    other,      \* the Registry of a second FakeFileSystem: [files, cells, cwd]
    thr         \* the threads sharing the FakeFileSystem: where each stands in its call

vars == <<files, cwd, cells, handles, ret, meta, listing, other, thr>>

----------------------------------------------------------------------------
(* Bounds of the model *)

MaxDepth == 3       \* longest path, in components
MaxEntries == 3     \* most entries of the registry below the root
MaxRestricted == 1  \* most entries whose mode is not the default
MaxHandles == 1     \* most handles the caller keeps open
MaxOps == 2         \* most calls a thread makes
MaxLen == 2         \* longest file contents, in bytes
IntBits == 3        \* width of u64, i64 and usize, in bits

NameSeq == <<"a", "ab">>
Names == {NameSeq[i] : i \in DOMAIN NameSeq}
Bytes == {1}

(* Program constants *)
DefaultMode == 420      \* 0o644
DirLen == 4096          \* the length a directory's metadata reports
ReadBits == 292         \* 0o444
WriteBits == 146        \* 0o222

\* The modes set_permissions is called with: 0o644, 0o444 (no write bit),
\* 0o222 (no read bit)
ModeInputs == {420, 292, 146}

\* The modes the mode tests set besides: 0o600, 0o200, 0o000
ModeTests == ModeInputs \cup {384, 128, 0}

----------------------------------------------------------------------------
(* Paths *)

RECURSIVE SeqsUpTo(_)
SeqsUpTo(n) ==
    IF n = 0 THEN {<<>>}
    ELSE LET S == SeqsUpTo(n - 1)
         IN  S \cup {Append(s, x) : s \in {t \in S : Len(t) = n - 1}, x \in Names}

\* The paths the caller names: everything down to two components, and
\* below that only the chain a/a/...
Paths ==
    {p \in SeqsUpTo(MaxDepth) : \A i \in 3..Len(p) : p[i] = "a" /\ p[i - 1] = "a"}

Root == <<>>

\* Path::parent, for a path that has one (the root has none)
Parent(p) == SubSeq(p, 1, Len(p) - 1)

\* A path as the string it is written as, and the prefix test on strings:
\* what starts_with would be were it not component-wise
NameChars(x) == IF x = "a" THEN <<"a">> ELSE <<"a", "b">>

RECURSIVE PathString(_)
PathString(p) ==
    IF p = <<>> THEN <<>>
    ELSE PathString(SubSeq(p, 1, Len(p) - 1)) \o <<"/">> \o NameChars(p[Len(p)])

StringStartsWith(p, q) ==
    /\ Len(PathString(q)) <= Len(PathString(p))
    /\ SubSeq(PathString(p), 1, Len(PathString(q))) = PathString(q)

\* Path::starts_with: component-wise prefix
StartsWith(p, q) == Len(q) <= Len(p) /\ SubSeq(p, 1, Len(q)) = q

\* to.join(child.strip_prefix(from))
Rebase(child, from, to) == to \o SubSeq(child, Len(from) + 1, Len(child))

----------------------------------------------------------------------------
(* Mode bits *)

RECURSIVE BitAnd(_, _)
BitAnd(a, b) ==
    IF a = 0 \/ b = 0 THEN 0
    ELSE (a % 2) * (b % 2) + 2 * BitAnd(a \div 2, b \div 2)

CanRead(mode) == BitAnd(mode, ReadBits) # 0
CanWrite(mode) == BitAnd(mode, WriteBits) # 0

\* A read-only switch that resets the whole mode to 0o444 or 0o666
MakeReadonlyWhole(mode, readonly) ==
    IF readonly THEN ReadBits ELSE ReadBits + WriteBits

\* make_readonly: *mode &= !0o222 or *mode |= 0o222
MakeReadonly(mode, readonly) ==
    IF readonly THEN mode - BitAnd(mode, WriteBits)
    ELSE mode + (WriteBits - BitAnd(mode, WriteBits))

----------------------------------------------------------------------------
(* Nodes.  A registry state is a record [files, cells]. *)

DirNode(mode) == [kind |-> "Dir", mode |-> mode, id |-> 0]
FileNode(id) == [kind |-> "File", mode |-> 0, id |-> id]

NodeMode(st, p) ==
    IF st.files[p].kind = "Dir" THEN st.files[p].mode
    ELSE st.cells[st.files[p].id].mode

IsPresent(st, p) == p \in DOMAIN st.files
IsDirAt(st, p) == IsPresent(st, p) /\ st.files[p].kind = "Dir"
IsFileAt(st, p) == IsPresent(st, p) /\ st.files[p].kind = "File"

Without(f, p) == [q \in DOMAIN f \ {p} |-> f[q]]

\* A cell id no live cell has: a new Arc
FreshId(st) ==
    CHOOSE i \in 1..(Cardinality(DOMAIN st.cells) + 1) :
        /\ i \notin DOMAIN st.cells
        /\ \A j \in 1..(i - 1) : j \in DOMAIN st.cells

Result(st, kind) == [files |-> st.files, cells |-> st.cells, res |-> kind]

----------------------------------------------------------------------------
(* Registry: lookups.  Each gives the error kind, or "Ok". *)

Get(st, p) == IF IsPresent(st, p) THEN "Ok" ELSE "NotFound"

GetDir(st, p) ==
    IF ~IsPresent(st, p) THEN "NotFound"
    ELSE IF st.files[p].kind = "Dir" THEN "Ok" ELSE "Other"

GetDirWritable(st, p) ==
    IF ~IsPresent(st, p) THEN "NotFound"
    ELSE IF st.files[p].kind = "File" THEN "Other"
    ELSE IF CanWrite(NodeMode(st, p)) THEN "Ok" ELSE "PermissionDenied"

GetFile(st, p) ==
    IF ~IsPresent(st, p) THEN "NotFound"
    ELSE IF st.files[p].kind = "File" THEN "Ok" ELSE "Other"

GetFileWritable(st, p) ==
    IF ~IsPresent(st, p) THEN "NotFound"
    ELSE IF st.files[p].kind = "Dir" THEN "Other"
    ELSE IF CanWrite(NodeMode(st, p)) THEN "Ok" ELSE "PermissionDenied"

\* A read check that asks for the write bits
GetFileReadableByWriteBits(st, p) ==
    IF ~IsPresent(st, p) THEN "NotFound"
    ELSE IF st.files[p].kind = "Dir" THEN "Other"
    ELSE IF CanWrite(NodeMode(st, p)) THEN "Ok" ELSE "PermissionDenied"

GetFileReadable(st, p) ==
    IF ~IsPresent(st, p) THEN "NotFound"
    ELSE IF st.files[p].kind = "Dir" THEN "Other"
    ELSE IF CanRead(NodeMode(st, p)) THEN "Ok" ELSE "PermissionDenied"

\* A registry that reports no descendants
NoDescendants(st, p) == {}

Descendants(st, p) == {q \in DOMAIN st.files : StartsWith(q, p) /\ q # p}

Children(st, p) == {q \in DOMAIN st.files : q # Root /\ Parent(q) = p}

----------------------------------------------------------------------------
(* Registry: insert and remove *)

Insert(st, p, node) ==
    IF IsPresent(st, p) THEN Result(st, "AlreadyExists")
    ELSE IF p # Root /\ GetDirWritable(st, Parent(p)) # "Ok"
         THEN Result(st, GetDirWritable(st, Parent(p)))
    ELSE Result([st EXCEPT !.files = (p :> node) @@ st.files], "Ok")

Remove(st, p) ==
    IF IsPresent(st, p)
    THEN Result([st EXCEPT !.files = Without(st.files, p)], "Ok")
    ELSE Result(st, "NotFound")

----------------------------------------------------------------------------
(* Registry: the path operations *)

\* A create_dir that does not look at the parent
CreateDirAnywhere(st, p) ==
    IF IsPresent(st, p) THEN Result(st, "AlreadyExists")
    ELSE Result([st EXCEPT !.files = (p :> DirNode(DefaultMode)) @@ st.files], "Ok")

CreateDirReg(st, p) == Insert(st, p, DirNode(DefaultMode))

RECURSIVE CreateDirAllReg(_, _)

\* create_dir_all on an absolute path (never the empty path ""): create_dir;
\* on NotFound the parent first, then the path again; an error is Ok if the
\* path is a directory
CreateDirAllReg(st, p) ==
    LET r == CreateDirReg(st, p)
    IN  IF r.res = "Ok" THEN r
        ELSE IF r.res # "NotFound"
             THEN IF IsDirAt(st, p) THEN Result(st, "Ok") ELSE r
        ELSE IF p = Root THEN Result(st, "Other")
        ELSE LET up == CreateDirAllReg(st, Parent(p))
             IN  IF up.res # "Ok" THEN up ELSE CreateDirAllReg(up, p)

\* A remove_dir that takes what is under the directory with it
RemoveDirWithContents(st, p) ==
    IF GetDir(st, p) # "Ok" THEN Result(st, GetDir(st, p))
    ELSE Result([st EXCEPT !.files =
                    [q \in DOMAIN st.files \ (Descendants(st, p) \cup {p}) |-> st.files[q]]],
                "Ok")

RemoveDirReg(st, p) ==
    IF GetDir(st, p) # "Ok" THEN Result(st, GetDir(st, p))
    ELSE IF Descendants(st, p) # {} THEN Result(st, "Other")
    ELSE Remove(st, p)

RemoveDirAllReg(st, p) ==
    IF GetDirWritable(st, p) # "Ok" THEN Result(st, GetDirWritable(st, p))
    ELSE IF \E q \in Descendants(st, p) : ~CanRead(NodeMode(st, q))
         THEN Result(st, "PermissionDenied")
    ELSE LET gone == Descendants(st, p) \cup {p}
         IN  Result([st EXCEPT !.files = [q \in DOMAIN st.files \ gone |-> st.files[q]]],
                    "Ok")

\* File::new(buf), then insert
CreateFileReg(st, p, buf) ==
    LET id == FreshId(st)
        r  == Insert(st, p, FileNode(id))
    IN  IF r.res # "Ok" THEN r
        ELSE [r EXCEPT !.cells = (id :> [contents |-> buf, mode |-> DefaultMode]) @@ st.cells]

\* What rewriting a file would be if it replaced the file's cell by a new one
SetContentsFresh(st, p, buf) ==
    LET id == FreshId(st)
    IN  Result([files |-> [st.files EXCEPT ![p] = FileNode(id)],
                cells |-> (id :> [contents |-> buf,
                                  mode |-> st.cells[st.files[p].id].mode]) @@ st.cells],
               "Ok")

\* *f.contents.borrow_mut() = buf.to_vec(): the file's own cell is rewritten
SetContents(st, p, buf) ==
    Result([st EXCEPT !.cells[st.files[p].id].contents = buf], "Ok")

WriteFileReg(st, p, buf) ==
    LET e == GetFileWritable(st, p)
    IN  IF e = "Ok" THEN SetContents(st, p, buf)
        ELSE IF e = "NotFound" THEN CreateFileReg(st, p, buf)
        ELSE Result(st, e)

OverwriteFileReg(st, p, buf) ==
    LET e == GetFileWritable(st, p)
    IN  IF e = "Ok" THEN SetContents(st, p, buf) ELSE Result(st, e)

\* What remove_file would be if it emptied the file's cell as well
RemoveFileAndTruncate(st, p) ==
    IF GetFile(st, p) # "Ok" THEN Result(st, GetFile(st, p))
    ELSE Remove([st EXCEPT !.cells[st.files[p].id].contents = <<>>], p)

RemoveFileReg(st, p) ==
    IF GetFile(st, p) # "Ok" THEN Result(st, GetFile(st, p))
    ELSE Remove(st, p)

\* read_file: get_contents_if_readable(p), then contents.to_vec()
ReadFileReg(st, p) ==
    IF GetFileReadable(st, p) # "Ok"
    THEN [res |-> GetFileReadable(st, p), data |-> <<>>]
    ELSE [res |-> "Ok", data |-> st.cells[st.files[p].id].contents]

\* A copy that makes the destination a second name of the source's cell
CopyFileLinking(st, from, to) ==
    LET rd == ReadFileReg(st, from)
        wr == WriteFileReg(st, to, rd.data)
    IN  IF rd.res = "Ok"
        THEN IF wr.res # "Ok" THEN wr
             ELSE Result([files |-> [wr.files EXCEPT ![to] = st.files[from]],
                          cells |-> wr.cells], "Ok")
        ELSE IF rd.res = "Other" THEN Result(st, "InvalidInput")
        ELSE Result(st, rd.res)

\* A copy that hands on the error of reading the source as it is
CopyFileRawErrors(st, from, to) ==
    LET rd == ReadFileReg(st, from)
    IN  IF rd.res = "Ok" THEN WriteFileReg(st, to, rd.data)
        ELSE Result(st, rd.res)

\* match read_file(from): Ok(buf) => write_file(to, buf); an error of kind
\* Other becomes InvalidInput; any other error is returned
CopyFileReg(st, from, to) ==
    LET rd == ReadFileReg(st, from)
    IN  IF rd.res = "Ok" THEN WriteFileReg(st, to, rd.data)
        ELSE IF rd.res = "Other" THEN Result(st, "InvalidInput")
        ELSE Result(st, rd.res)

SetModeReg(st, p, mode) ==
    IF ~IsPresent(st, p) THEN Result(st, "NotFound")
    ELSE IF st.files[p].kind = "Dir"
         THEN Result([st EXCEPT !.files[p].mode = mode], "Ok")
    ELSE Result([st EXCEPT !.cells[st.files[p].id].mode = mode], "Ok")

\* get(path), then the can_write of the node's mode, negated
ReadonlyReg(st, p) ==
    IF Get(st, p) # "Ok" THEN [res |-> Get(st, p), value |-> <<>>]
    ELSE [res |-> "Ok", value |-> <<~CanWrite(NodeMode(st, p))>>]

\* get(path), then make_readonly on the node's mode
SetReadonlyReg(st, p, readonly) ==
    IF Get(st, p) # "Ok" THEN Result(st, Get(st, p))
    ELSE SetModeReg(st, p, MakeReadonly(NodeMode(st, p), readonly))

\* get(path), then the node's mode
ModeReg(st, p) ==
    IF Get(st, p) # "Ok" THEN [res |-> Get(st, p), value |-> <<>>]
    ELSE [res |-> "Ok", value |-> <<NodeMode(st, p)>>]

\* Registry::new: the root directory, which is the working directory
NewRegistry == [files |-> (Root :> DirNode(DefaultMode)), cells |-> <<>>, cwd |-> Root]

\* A set_current_dir that stores whatever path it is given
SetCurrentDirUnchecked(st, wd, p) == [res |-> "Ok", cwd |-> p]

\* set_current_dir: the cwd is assigned if get_dir(&cwd) is Ok
SetCurrentDirReg(st, wd, p) ==
    IF GetDir(st, p) = "Ok" THEN [res |-> "Ok", cwd |-> p]
    ELSE [res |-> GetDir(st, p), cwd |-> wd]

\* The orders a HashMap may hand the elements of S out in
Orders(S) ==
    {seq \in [1..Cardinality(S) -> S] : \A i, j \in 1..Cardinality(S) : seq[i] = seq[j] => i = j}

\* A read_dir that lists everything below the directory
ReadDirDeep(st, p) ==
    IF GetDir(st, p) # "Ok" THEN {[res |-> GetDir(st, p), entries |-> <<>>]}
    ELSE {[res |-> "Ok", entries |-> seq] : seq \in Orders(Descendants(st, p))}

\* read_dir: get_dir(path)?, then children(path), in the order of the map
ReadDirReg(st, p) ==
    IF GetDir(st, p) # "Ok" THEN {[res |-> GetDir(st, p), entries |-> <<>>]}
    ELSE {[res |-> "Ok", entries |-> seq] : seq \in Orders(Children(st, p))}

\* remove(from)?, then insert(to, node): a failing insert drops the node
RenamePath(st, from, to) ==
    LET r == Remove(st, from)
    IN  IF r.res # "Ok" THEN r ELSE Insert(r, to, st.files[from])

(* rename and move_dir call each other.  move_dir walks children(from) in  *)
(* the HashMap's iteration order and stops at the first failure, so a      *)
(* rename has one outcome per order: RenameReg is the set of outcomes.     *)
(* A directory renamed into its own subtree (rename("/a", "/a/b/a") with   *)
(* "/a/b" a directory) makes the two recurse on ever longer paths; the     *)
(* model stops at MaxDepth with the outcome "TooDeep", which no step takes.*)
RECURSIVE RenameReg(_, _, _), MoveChildren(_, _, _, _)

MoveDir(st, from, to) ==
    LET r == RenamePath(st, from, to)
    IN  IF r.res # "Ok" THEN {r}
        ELSE MoveChildren(r, Children(r, from), from, to)

MoveChildren(st, todo, from, to) ==
    IF todo = {} THEN {Result(st, "Ok")}
    ELSE UNION { UNION { IF r.res # "Ok" THEN {r}
                         ELSE MoveChildren(r, todo \ {child}, from, to)
                         : r \in RenameReg(st, child, Rebase(child, from, to)) }
                 : child \in todo }

RenameReg(st, from, to) ==
    IF Len(to) > MaxDepth THEN {Result(st, "TooDeep")}   \* beyond the model's paths
    ELSE IF ~IsPresent(st, from) THEN {Result(st, "NotFound")}
    ELSE IF IsFileAt(st, from) /\ IsFileAt(st, to) THEN
        LET r == RemoveFileReg(st, to)
        IN  IF r.res # "Ok" THEN {r} ELSE {RenamePath(r, from, to)}
    ELSE IF IsFileAt(st, from) /\ ~IsPresent(st, to) THEN {RenamePath(st, from, to)}
    ELSE IF IsDirAt(st, from) /\ IsDirAt(st, to) /\ Descendants(st, to) = {} THEN
        LET r == Remove(st, to)
        IN  IF r.res # "Ok" THEN {r} ELSE MoveDir(r, from, to)
    ELSE IF IsPresent(st, to) THEN {Result(st, "Other")}
    ELSE MoveDir(st, from, to)

----------------------------------------------------------------------------
(* Paths as the caller writes them, and canonicalize.  A written path is   *)
(* [abs, comps]: whether it starts at the root, and its components, which  *)
(* are names, ".." and ".".                                                *)

DotDot == ".."
Dot == "."

AbsPath(comps) == [abs |-> TRUE, comps |-> comps]
RelPath(comps) == [abs |-> FALSE, comps |-> comps]

\* The path "": relative and without components
EmptyPath == RelPath(<<>>)

\* Path::iter on an absolute path: the root component, then the components
\* without the "." among them
RECURSIVE WithoutDots(_)
WithoutDots(comps) ==
    IF comps = <<>> THEN <<>>
    ELSE IF Head(comps) = Dot THEN WithoutDots(Tail(comps))
    ELSE <<Head(comps)>> \o WithoutDots(Tail(comps))

Chunks(comps) == <<"/">> \o WithoutDots(comps)

\* current_dir: get_dir(cwd), then the cwd
CurrentDirReg(st, wd) == [res |-> GetDir(st, wd), path |-> wd]

\* to_absolute_path: a relative path is joined to current_dir(), or to the
\* root if current_dir() fails; the result is the components after the root
ToAbsolutePath(st, wd, raw) ==
    IF raw.abs THEN raw.comps
    ELSE (IF CurrentDirReg(st, wd).res = "Ok" THEN wd ELSE Root) \o raw.comps

\* PathBuf::pop, which does nothing on the root, and PathBuf::push, which
\* starts over at a root component
PopPush(sane, chunk) ==
    IF chunk = DotDot THEN (IF sane = Root THEN Root ELSE Parent(sane))
    ELSE IF chunk = "/" THEN Root
    ELSE Append(sane, chunk)

\* A walk that looks at the final path only
RECURSIVE WalkUnchecked(_, _, _, _)
WalkUnchecked(st, sane, chunks, idx) ==
    LET s == PopPush(sane, chunks[idx])
    IN  IF idx = Len(chunks)
        THEN [res |-> Get(st, s), path |-> IF Get(st, s) = "Ok" THEN <<s>> ELSE <<>>]
        ELSE WalkUnchecked(st, s, chunks, idx + 1)

\* The loop of canonicalize_path from chunk idx on: get for the last chunk,
\* get_dir for every other
RECURSIVE Walk(_, _, _, _)
Walk(st, sane, chunks, idx) ==
    LET s == PopPush(sane, chunks[idx])
        e == IF idx = Len(chunks) THEN Get(st, s) ELSE GetDir(st, s)
    IN  IF e # "Ok" THEN [res |-> e, path |-> <<>>]
        ELSE IF idx = Len(chunks) THEN [res |-> "Ok", path |-> <<s>>]
        ELSE Walk(st, s, chunks, idx + 1)

\* canonicalize_path of an absolute path, given by its components
CanonicalizePath(st, comps) == Walk(st, Root, Chunks(comps), 1)

\* FileSystem::canonicalize: NotFound for the empty path, else
\* canonicalize_path of the absolute path
CanonicalizeReg(st, wd, raw) ==
    IF raw = EmptyPath THEN [res |-> "NotFound", path |-> <<>>]
    ELSE CanonicalizePath(st, ToAbsolutePath(st, wd, raw))

----------------------------------------------------------------------------
(* Open handles (FakeOpenFile) *)

Closed == [id |-> 0, pos |-> 0, access |-> "Closed"]

\* FakeOpenFile::new: clones the file's cells; the cursor starts at 0
NewHandle(id, access) == [id |-> id, pos |-> 0, access |-> access]

\* The handles the caller can keep at a time
Slots == DOMAIN handles
OpenSlots == {h \in Slots : handles[h] # Closed}
FreeSlot == CHOOSE h \in Slots : handles[h] = Closed /\ \A g \in 1..(h - 1) : handles[g] # Closed

Min(a, b) == IF a < b THEN a ELSE b

\* A resize that extends but never truncates
ResizeUp(c, n) == [i \in 1..(IF n > Len(c) THEN n ELSE Len(c)) |->
                      IF i <= Len(c) THEN c[i] ELSE 0]

\* Vec::resize(n, 0)
Resize(c, n) == [i \in 1..n |-> IF i <= Len(c) THEN c[i] ELSE 0]

\* A read that does not stop at the end: the count is the distance to the end
ReadHandleBlind(hd, contents, n) ==
    IF hd.access # "Read" THEN [data |-> <<>>, pos |-> hd.pos, res |-> "Other"]
    ELSE LET len == Min(Len(contents) - hd.pos, n)
         IN  [data |-> SubSeq(contents, hd.pos + 1, hd.pos + len),
              pos  |-> hd.pos + len,
              res  |-> "Ok"]

\* io::Read::read with a buffer of n bytes: [data, pos, res]
ReadHandle(hd, contents, n) ==
    IF hd.access # "Read" THEN [data |-> <<>>, pos |-> hd.pos, res |-> "Other"]
    ELSE LET len == IF hd.pos < Len(contents) THEN Min(Len(contents) - hd.pos, n) ELSE 0
         IN  [data |-> SubSeq(contents, hd.pos + 1, hd.pos + len),
              pos  |-> hd.pos + len,
              res  |-> "Ok"]

\* A write that appends, wherever the cursor is
WriteHandleAtEnd(hd, contents, buf) ==
    IF hd.access # "Write"
    THEN [contents |-> contents, pos |-> hd.pos, n |-> 0, res |-> "Other"]
    ELSE [contents |-> contents \o buf, pos |-> hd.pos + Len(buf), n |-> Len(buf),
          res |-> "Ok"]

\* io::Write::write: [contents, pos, n, res], n being the count returned
WriteHandle(hd, contents, buf) ==
    IF hd.access # "Write"
    THEN [contents |-> contents, pos |-> hd.pos, n |-> 0, res |-> "Other"]
    ELSE LET c1 == IF hd.pos > Len(contents) THEN Resize(contents, hd.pos) ELSE contents
             copyLen == Min(Len(buf), Len(c1) - hd.pos)
             c2 == [i \in 1..Len(c1) |->
                        IF i > hd.pos /\ i <= hd.pos + copyLen THEN buf[i - hd.pos] ELSE c1[i]]
         IN  [contents |-> c2 \o SubSeq(buf, copyLen + 1, Len(buf)),
              pos      |-> hd.pos + Len(buf),
              n        |-> Len(buf),
              res      |-> "Ok"]

\* The integers of the width: u64 and i64
U64 == 0..(2^IntBits - 1)
I64 == (0 - 2^(IntBits - 1))..(2^(IntBits - 1) - 1)

\* `x as i64`: the two's complement value of the low bits
AsI64(x) ==
    LET m == x % (2^IntBits)
    IN  IF m >= 2^(IntBits - 1) THEN m - 2^IntBits ELSE m

\* a + b on i64.  A sum out of range panics where overflow checks are
\* compiled in and wraps where they are not: the set of both outcomes.
AddI64(a, b) ==
    IF a + b \in I64 THEN {[panic |-> FALSE, v |-> a + b]}
    ELSE {[panic |-> TRUE, v |-> 0], [panic |-> FALSE, v |-> AsI64(a + b)]}

Whences == {"Start", "Current", "End"}

\* The offsets a SeekFrom of that kind carries: Start(u64), End(i64), Current(i64)
SeekOffsets(whence) == IF whence = "Start" THEN U64 ELSE I64

\* The `pos` that seek computes from its SeekFrom
SeekTarget(hd, contents, whence, off) ==
    CASE whence = "Start"   -> {[panic |-> FALSE, v |-> AsI64(off)]}
      [] whence = "End"     -> AddI64(AsI64(Len(contents)), off)
      [] whence = "Current" -> AddI64(AsI64(hd.pos), off)

\* io::Seek::seek: the set of [pos, at, res], `at` being the position returned
SeekHandle(hd, contents, whence, off) ==
    {IF t.panic THEN [pos |-> hd.pos, at |-> <<>>, res |-> "Panic"]
     ELSE IF t.v >= 0 THEN [pos |-> t.v, at |-> <<t.v>>, res |-> "Ok"]
     ELSE [pos |-> hd.pos, at |-> <<>>, res |-> "InvalidInput"] :
        t \in SeekTarget(hd, contents, whence, off)}

\* A set_len that does not look at the access mode
SetLenAnyAccess(hd, contents, size) == [contents |-> Resize(contents, size), res |-> "Ok"]

\* FileExt::set_len: [contents, res]
SetLenHandle(hd, contents, size) ==
    IF hd.access # "Write" THEN [contents |-> contents, res |-> "Other"]
    ELSE [contents |-> Resize(contents, size), res |-> "Ok"]

\* The caller holds no FakeMetadata.  Of a value it holds, h is the handle
\* it came from (0: from a path), clean tells that no write or set_len has
\* succeeded through that handle since, and prev is the length that the
\* call before reported for the same handle, if no such write lies between.
NoMeta == [held |-> FALSE, value |-> [len |-> 0, permissions |-> 0, is_dir |-> FALSE],
           h |-> 0, clean |-> TRUE, prev |-> <<>>]

\* A thread that is in no call.  Of a thread in a call: pc is where it
\* stands, op, path, to, buf and n are the call and its arguments, holds the
\* mutexes whose guard it owns, todo, k and n the loop it is in, res, data
\* and entries what the call returns, did the calls it has finished.  seen
\* is not of the program: it is the state the thread found when it took its
\* lock, kept for the properties.
IdleThread ==
    [pc |-> "idle", op |-> "none", path |-> <<>>, to |-> <<>>, buf |-> <<>>, n |-> 0,
     holds |-> {}, todo |-> <<>>, k |-> 0, res |-> "none", data |-> <<>>, entries |-> {},
     seen |-> <<>>, did |-> <<>>]

Threads == {1, 2}
NoThreads == [t \in Threads |-> IdleThread]

\* The caller holds no ReadDir
NoListing == [held |-> FALSE, entries |-> <<>>]

Held(value, h) ==
    [held |-> TRUE, value |-> value, h |-> h, clean |-> TRUE,
     prev |-> IF h # 0 /\ meta.held /\ meta.h = h /\ meta.clean
              THEN <<meta.value.len>> ELSE <<>>]

\* The caller's note of a call that has changed the file through handle h
Dirtied(h, res) ==
    IF meta.h = h /\ res = "Ok" THEN [meta EXCEPT !.clean = FALSE] ELSE meta

\* A metadata value that reports no bytes
EmptyFileMetadata(cell) == [len |-> 0, permissions |-> cell.mode, is_dir |-> FALSE]

\* FakeMetadata::from(&node::File): the values, not the cells
FileMetadata(cell) ==
    [len |-> Len(cell.contents), permissions |-> cell.mode, is_dir |-> FALSE]

\* FakeMetadata::from(&node::Dir)
DirMetadata(node) == [len |-> DirLen, permissions |-> node.mode, is_dir |-> TRUE]

\* A handle's metadata that takes the cursor for the length
CursorAsLength(hd, cs) ==
    [len |-> hd.pos, permissions |-> cs[hd.id].mode, is_dir |-> FALSE]

\* FileExt::metadata of a handle: FakeMetadata::from(&self.f)
HandleMetadataValue(hd, cs) == FileMetadata(cs[hd.id])

\* FileSystem::metadata(path): [res, value]
MetadataReg(st, p) ==
    IF IsFileAt(st, p)
    THEN [res |-> GetFile(st, p), value |-> FileMetadata(st.cells[st.files[p].id])]
    ELSE IF GetDir(st, p) = "Ok"
         THEN [res |-> "Ok", value |-> DirMetadata(st.files[p])]
         ELSE [res |-> GetDir(st, p), value |-> NoMeta.value]

\* Reading the file at a path to its end: open, then read_to_end
ReadToEnd(st, p) ==
    IF GetFileReadable(st, p) # "Ok"
    THEN [res |-> GetFileReadable(st, p), data |-> <<>>]
    ELSE [res |-> "Ok", data |-> st.cells[st.files[p].id].contents]

----------------------------------------------------------------------------
(* The state machine.  A call runs as one step and leaves its io::Result   *)
(* in ret; Return hands the result to the caller, who may then call again. *)

St == [files |-> files, cells |-> cells]

MkRet(op, path, to, h, res, data) ==
    [op |-> op, path |-> path, to |-> to, h |-> h, res |-> res, data |-> data,
     arg |-> <<>>]

\* The same for a call with an argument that is not a path
MkRetArg(op, path, h, res, data, arg) ==
    [op |-> op, path |-> path, to |-> Root, h |-> h, res |-> res, data |-> data,
     arg |-> arg]

Idle == MkRet("idle", Root, Root, 0, "Ok", <<>>)

\* The cells some owner still holds: an Arc without owners is freed
Owned(f, hs) ==
    {f[p].id : p \in {q \in DOMAIN f : f[q].kind = "File"}}
        \cup {hs[h].id : h \in {g \in DOMAIN hs : hs[g] # Closed}}

(* A cell id stands for the address of an Arc, which no operation can      *)
(* observe.  After every step the live cells are numbered 1, 2, ... in the  *)
(* order of the paths that own them, and then of the handle slots, so that *)
(* states that differ only in addresses are one state.                     *)
NameRank(x) == CHOOSE i \in DOMAIN NameSeq : NameSeq[i] = x

RECURSIVE PathKey(_)
PathKey(p) ==
    IF p = <<>> THEN 0
    ELSE (Len(NameSeq) + 1) * PathKey(Parent(p)) + NameRank(p[Len(p)])

OwnerKey(f, hs, i) ==
    IF \E p \in DOMAIN f : f[p].kind = "File" /\ f[p].id = i
    THEN PathKey(CHOOSE p \in DOMAIN f : f[p].kind = "File" /\ f[p].id = i)
    ELSE (Len(NameSeq) + 1) ^ (MaxDepth + 2)
            + (CHOOSE h \in DOMAIN hs : hs[h].id = i /\ \A g \in 1..(h - 1) : hs[g].id # i)

Renumber(f, hs, cs) ==
    LET live == Owned(f, hs)
        key  == [i \in live |-> OwnerKey(f, hs, i)]
        new  == [i \in live |-> Cardinality({j \in live : key[j] <= key[i]})]
        old  == [n \in 1..Cardinality(live) |-> CHOOSE i \in live : new[i] = n]
    IN  [files   |-> [p \in DOMAIN f |->
                        IF f[p].kind = "File" THEN FileNode(new[f[p].id]) ELSE f[p]],
         handles |-> [h \in DOMAIN hs |->
                        IF hs[h] = Closed THEN Closed ELSE [hs[h] EXCEPT !.id = new[hs[h].id]]],
         cells   |-> [n \in 1..Cardinality(live) |-> cs[old[n]]]]

\* The state a step leaves: registry f, handles hs, heap cs
Leave(f, hs, cs) ==
    IF f = files /\ hs = handles /\ cs = cells
    THEN UNCHANGED <<files, handles, cells>>
    ELSE LET n == Renumber(f, hs, cs)
         IN  /\ files' = n.files
             /\ handles' = n.handles
             /\ cells' = n.cells

Init ==
    /\ files = (Root :> DirNode(DefaultMode))
    /\ cwd = Root
    /\ cells = <<>>
    /\ handles = [h \in 1..MaxHandles |-> Closed]
    /\ ret = Idle
    /\ meta = NoMeta
    /\ listing = NoListing
    /\ other = NewRegistry
    /\ thr = NoThreads

\* The same, for a caller (or two threads) keeping two handles at a time
InitPair ==
    /\ files = (Root :> DirNode(DefaultMode))
    /\ cwd = Root
    /\ cells = <<>>
    /\ handles = <<Closed, Closed>>
    /\ ret = Idle
    /\ meta = NoMeta
    /\ listing = NoListing
    /\ other = NewRegistry
    /\ thr = NoThreads

InBounds(r) ==
    /\ r.res # "TooDeep"
    /\ DOMAIN r.files \subseteq Paths
    /\ Cardinality(DOMAIN r.files \ {Root}) <= MaxEntries
    /\ Cardinality({p \in DOMAIN r.files : NodeMode(r, p) # DefaultMode}) <= MaxRestricted

\* A registry call that returns no handle
RegistryStep(r, op, path, to) ==
    /\ InBounds(r)
    /\ Leave(r.files, handles, r.cells)
    /\ ret' = MkRet(op, path, to, 0, r.res, <<>>)
    /\ UNCHANGED <<cwd, listing, other, thr, meta>>

\* A registry call that returns a FakeOpenFile on path when it succeeds; the
\* caller keeps the handle, or drops it at once
OpenStepArg(r, op, path, access, keep, arg) ==
    /\ InBounds(r)
    /\ IF r.res = "Ok" /\ keep
       THEN /\ \E h \in Slots : handles[h] = Closed
            /\ Leave(r.files,
                     [handles EXCEPT ![FreeSlot] = NewHandle(r.files[path].id, access)],
                     r.cells)
            /\ ret' = MkRetArg(op, path, FreeSlot, "Ok", <<>>, arg)
       ELSE /\ Leave(r.files, handles, r.cells)
            /\ ret' = MkRetArg(op, path, 0, r.res, <<>>, arg)
    /\ UNCHANGED <<cwd, listing, other, thr, meta>>

OpenStep(r, op, path, access, keep) == OpenStepArg(r, op, path, access, keep, <<>>)

CreateDir(p) ==
    /\ ret = Idle
    /\ RegistryStep(CreateDirReg(St, p), "create_dir", p, Root)

CreateDirAll(p) ==
    /\ ret = Idle
    /\ RegistryStep(CreateDirAllReg(St, p), "create_dir_all", p, Root)

RemoveDir(p) ==
    /\ ret = Idle
    /\ RegistryStep(RemoveDirReg(St, p), "remove_dir", p, Root)

RemoveDirAll(p) ==
    /\ ret = Idle
    /\ RegistryStep(RemoveDirAllReg(St, p), "remove_dir_all", p, Root)

RemoveFile(p) ==
    /\ ret = Idle
    /\ RegistryStep(RemoveFileReg(St, p), "remove_file", p, Root)

CopyFile(from, to) ==
    /\ ret = Idle
    /\ RegistryStep(CopyFileReg(St, from, to), "copy_file", from, to)

Rename(from, to) ==
    /\ ret = Idle
    /\ \E r \in RenameReg(St, from, to) : RegistryStep(r, "rename", from, to)

SetPermissions(p, mode) ==
    /\ ret = Idle
    /\ RegistryStep(SetModeReg(St, p, mode), "set_permissions", p, Root)

\* Calls that answer with a value leave it in ret.arg
Readonly(p) ==
    /\ ret = Idle
    /\ ret' = MkRetArg("readonly", p, 0, ReadonlyReg(St, p).res, <<>>, ReadonlyReg(St, p).value)
    /\ UNCHANGED <<files, cwd, listing, other, thr, cells, handles, meta>>

SetReadonly(p, readonly) ==
    /\ ret = Idle
    /\ LET r == SetReadonlyReg(St, p, readonly)
       IN  /\ InBounds(r)
           /\ Leave(r.files, handles, r.cells)
           /\ ret' = MkRetArg("set_readonly", p, 0, r.res, <<>>, <<readonly>>)
    /\ UNCHANGED <<cwd, listing, other, thr, meta>>

Mode(p) ==
    /\ ret = Idle
    /\ ret' = MkRetArg("mode", p, 0, ModeReg(St, p).res, <<>>, ModeReg(St, p).value)
    /\ UNCHANGED <<files, cwd, listing, other, thr, cells, handles, meta>>

\* DirEntry::new(path, file_name) with the path as it was written, and
\* DirEntry::path: parent.join(file_name)
DirEntry(raw, key) == [parent |-> raw, file_name |-> key[Len(key)]]
EntryPath(e) == [abs |-> e.parent.abs, comps |-> Append(e.parent.comps, e.file_name)]

\* FileSystem::read_dir: the registry's children of the absolute path, each
\* made a DirEntry; the caller keeps the ReadDir
ReadDir(raw) ==
    /\ ret = Idle
    /\ \E r \in ReadDirReg(St, ToAbsolutePath(St, cwd, raw)) :
          /\ ret' = MkRetArg("read_dir", Root, 0, r.res, <<>>, <<raw>>)
          /\ listing' = IF r.res = "Ok"
                        THEN [held |-> TRUE,
                              entries |-> [i \in DOMAIN r.entries |-> DirEntry(raw, r.entries[i])]]
                        ELSE listing
    /\ UNCHANGED <<files, cwd, cells, handles, meta, other, thr>>

\* FileSystem::current_dir; the path returned is left in ret.arg
CurrentDir ==
    /\ ret = Idle
    /\ LET r == CurrentDirReg(St, cwd)
       IN  ret' = MkRetArg("current_dir", Root, 0, r.res, <<>>,
                           IF r.res = "Ok" THEN <<r.path>> ELSE <<>>)
    /\ UNCHANGED <<files, cwd, cells, handles, meta, listing, other, thr>>

\* FileSystem::set_current_dir of a written path
SetCurrentDir(raw) ==
    /\ ret = Idle
    /\ LET r == SetCurrentDirReg(St, cwd, ToAbsolutePath(St, cwd, raw))
       IN  /\ Len(r.cwd) <= MaxDepth
           /\ cwd' = r.cwd
           /\ ret' = MkRetArg("set_current_dir", Root, 0, r.res, <<>>, <<raw>>)
    /\ UNCHANGED <<files, cells, handles, meta, listing, other, thr>>

\* create_dir and set_current_dir on the second FakeFileSystem
OtherCreateDir(p) ==
    /\ ret = Idle
    /\ LET r == CreateDirReg(other, p)
       IN  /\ InBounds(r)
           /\ other' = [other EXCEPT !.files = r.files]
           /\ ret' = MkRetArg("other.create_dir", p, 0, r.res, <<>>, <<>>)
    /\ UNCHANGED <<files, cwd, cells, handles, meta, listing, thr>>

OtherSetCurrentDir(p) ==
    /\ ret = Idle
    /\ LET r == SetCurrentDirReg(other, other.cwd, p)
       IN  /\ other' = [other EXCEPT !.cwd = r.cwd]
           /\ ret' = MkRetArg("other.set_current_dir", p, 0, r.res, <<>>, <<>>)
    /\ UNCHANGED <<files, cwd, cells, handles, meta, listing, thr>>

\* The written path is left in ret.arg, followed by the path returned
Canonicalize(raw) ==
    /\ ret = Idle
    /\ LET r == CanonicalizeReg(St, cwd, raw)
       IN  ret' = MkRetArg("canonicalize", Root, 0, r.res, <<>>, <<raw>> \o r.path)
    /\ UNCHANGED <<files, cwd, listing, other, thr, cells, handles, meta>>

\* get_file_if_readable, then FakeOpenFile::new(f, Read)
Open(p) ==
    /\ ret = Idle
    /\ OpenStep(Result(St, GetFileReadable(St, p)), "open", p, "Read", TRUE)

\* A create that opens an existing file as it is
CreateKeeping(st, p) ==
    IF GetFileWritable(st, p) = "Ok" THEN Result(st, "Ok")
    ELSE LET r == WriteFileReg(st, p, <<>>)
         IN  IF r.res # "Ok" THEN r ELSE Result(r, GetFileWritable(r, p))

\* write_file(p, &[])?, get_file_if_writable(p)?, FakeOpenFile::new(f, Write)
CreateReg(st, p) ==
    LET r == WriteFileReg(st, p, <<>>)
    IN  IF r.res # "Ok" THEN r ELSE Result(r, GetFileWritable(r, p))

Create(p, keep) ==
    /\ ret = Idle
    /\ OpenStep(CreateReg(St, p), "create", p, "Write", keep)

\* overwrite_file(p, &[])?, get_file_if_writable(p)?, FakeOpenFile::new(f, Write)
OverwriteReg(st, p) ==
    LET r == OverwriteFileReg(st, p, <<>>)
    IN  IF r.res # "Ok" THEN r ELSE Result(r, GetFileWritable(r, p))

Overwrite(p, keep) ==
    /\ ret = Idle
    /\ OpenStep(OverwriteReg(St, p), "overwrite", p, "Write", keep)

\* An open for writing that makes the file if it is not there
OpenWritableOrCreate(st, p) ==
    IF Get(st, p) = "NotFound" THEN CreateFileReg(st, p, <<>>)
    ELSE Result(st, GetFileWritable(st, p))

\* open_writable: get_file_if_writable(p), FakeOpenFile::new(f, Write)
OpenWritableReg(st, p) == Result(st, GetFileWritable(st, p))

\* A create_new that takes a path for present only if it can write the file
CreateNewIfWritable(st, p) ==
    IF GetFileWritable(st, p) = "Ok" THEN Result(st, "AlreadyExists")
    ELSE LET r == WriteFileReg(st, p, <<>>)
         IN  IF r.res # "Ok" THEN r ELSE Result(r, GetFileWritable(r, p))

\* create_new: AlreadyExists if readonly(p).is_ok(); write_file(p, &[])?,
\* get_file_if_writable(p), FakeOpenFile::new(f, Write)
CreateNewReg(st, p) ==
    IF Get(st, p) = "Ok" THEN Result(st, "AlreadyExists")
    ELSE LET r == WriteFileReg(st, p, <<>>)
         IN  IF r.res # "Ok" THEN r ELSE Result(r, GetFileWritable(r, p))

\* OpenOptions: the six flags, all false in OpenOptions::new()
Flags == {"append", "create", "create_new", "read", "truncate", "write"}
OpenOptions == [Flags -> BOOLEAN]
Options(set) == [f \in Flags |-> f \in set]

\* A dispatch that does not look at the append flag
OpenKindButAppend(o) ==
    LET q == [o EXCEPT !["append"] = FALSE]
    IN  CASE q = Options({"create", "truncate", "write"}) -> "create"
          [] q = Options({"read"})                        -> "open"
          [] q = Options({"write"})                       -> "open_writable"
          [] q = Options({"create_new", "write"})         -> "create_new"
          [] q = Options({"truncate", "write"})           -> "overwrite"
          [] OTHER                                        -> "unsupported"

\* The match of open_with_options: the function the options select
OpenKind(o) ==
    CASE o = Options({"create", "truncate", "write"}) -> "create"
      [] o = Options({"read"})                        -> "open"
      [] o = Options({"write"})                       -> "open_writable"
      [] o = Options({"create_new", "write"})         -> "create_new"
      [] o = Options({"truncate", "write"})           -> "overwrite"
      [] OTHER                                        -> "unsupported"

OpenWithOptionsReg(st, p, o) ==
    CASE OpenKind(o) = "create"        -> CreateReg(st, p)
      [] OpenKind(o) = "open"          -> Result(st, GetFileReadable(st, p))
      [] OpenKind(o) = "open_writable" -> OpenWritableReg(st, p)
      [] OpenKind(o) = "create_new"    -> CreateNewReg(st, p)
      [] OpenKind(o) = "overwrite"     -> OverwriteReg(st, p)
      [] OTHER                         -> Result(st, "InvalidInput")

OpenWithOptions(p, o, keep) ==
    /\ ret = Idle
    /\ OpenStepArg(OpenWithOptionsReg(St, p, o), "open_with_options", p,
                   IF OpenKind(o) = "open" THEN "Read" ELSE "Write", keep, <<o>>)

\* A read that moves the cursor of every handle on the same cell
ReadMovingAll(h, n) ==
    /\ ret = Idle
    /\ handles[h] # Closed
    /\ LET r == ReadHandle(handles[h], cells[handles[h].id].contents, n)
       IN  /\ handles' = [g \in DOMAIN handles |->
                             IF handles[g].id = handles[h].id
                             THEN [handles[g] EXCEPT !.pos = r.pos] ELSE handles[g]]
           /\ ret' = MkRetArg("read", Root, h, r.res, r.data, <<n>>)
    /\ UNCHANGED <<files, cwd, listing, other, thr, cells, meta>>

Read(h, n) ==
    /\ ret = Idle
    /\ handles[h] # Closed
    /\ LET r == ReadHandle(handles[h], cells[handles[h].id].contents, n)
       IN  /\ handles' = [handles EXCEPT ![h].pos = r.pos]
           /\ ret' = MkRetArg("read", Root, h, r.res, r.data, <<n>>)
    /\ UNCHANGED <<files, cwd, listing, other, thr, cells, meta>>

\* A write that asks for the file's write bits again
WriteIfWritable(h, buf) ==
    /\ ret = Idle
    /\ handles[h] # Closed
    /\ LET r == WriteHandle(handles[h], cells[handles[h].id].contents, buf)
           ok == CanWrite(cells[handles[h].id].mode)
       IN  /\ Len(r.contents) <= MaxLen
           /\ cells' = IF ok THEN [cells EXCEPT ![handles[h].id].contents = r.contents]
                       ELSE cells
           /\ handles' = IF ok THEN [handles EXCEPT ![h].pos = r.pos] ELSE handles
           /\ ret' = MkRetArg("write", Root, h, IF ok THEN r.res ELSE "PermissionDenied", buf,
                              IF ok /\ r.res = "Ok" THEN <<r.n>> ELSE <<>>)
           /\ meta' = Dirtied(h, r.res)
    /\ UNCHANGED <<files, cwd, listing, other, thr>>

Write(h, buf) ==
    /\ ret = Idle
    /\ handles[h] # Closed
    /\ LET r == WriteHandle(handles[h], cells[handles[h].id].contents, buf)
       IN  /\ Len(r.contents) <= MaxLen
           /\ cells' = [cells EXCEPT ![handles[h].id].contents = r.contents]
           /\ handles' = [handles EXCEPT ![h].pos = r.pos]
           /\ ret' = MkRetArg("write", Root, h, r.res, buf,
                              IF r.res = "Ok" THEN <<r.n>> ELSE <<>>)
           /\ meta' = Dirtied(h, r.res)
    /\ UNCHANGED <<files, cwd, listing, other, thr>>

Seek(h, whence, off) ==
    /\ ret = Idle
    /\ handles[h] # Closed
    /\ \E r \in SeekHandle(handles[h], cells[handles[h].id].contents, whence, off) :
           /\ handles' = [handles EXCEPT ![h].pos = r.pos]
           /\ ret' = MkRetArg("seek", Root, h, r.res, r.at, <<whence, off>>)
    /\ UNCHANGED <<files, cwd, listing, other, thr, cells, meta>>

SetLen(h, size) ==
    /\ ret = Idle
    /\ handles[h] # Closed
    /\ LET r == SetLenHandle(handles[h], cells[handles[h].id].contents, size)
       IN  /\ cells' = [cells EXCEPT ![handles[h].id].contents = r.contents]
           /\ ret' = MkRetArg("set_len", Root, h, r.res, <<>>, <<size>>)
           /\ meta' = Dirtied(h, r.res)
    /\ UNCHANGED <<files, cwd, listing, other, thr, handles>>

\* FileSystem::metadata(path); the caller keeps the value
Metadata(p) ==
    /\ ret = Idle
    /\ LET r == MetadataReg(St, p)
       IN  /\ meta' = IF r.res = "Ok" THEN Held(r.value, 0) ELSE meta
           /\ ret' = MkRet("metadata", p, Root, 0, r.res, <<>>)
    /\ UNCHANGED <<files, cwd, listing, other, thr, cells, handles>>

\* FileExt::metadata of a handle; the caller keeps the value
HandleMetadata(h) ==
    /\ ret = Idle
    /\ handles[h] # Closed
    /\ meta' = Held(HandleMetadataValue(handles[h], cells), h)
    /\ ret' = MkRet("handle_metadata", Root, Root, h, "Ok", <<>>)
    /\ UNCHANGED <<files, cwd, listing, other, thr, cells, handles>>

\* The caller drops a FakeOpenFile: its Arc clones are released
DropHandle(h) ==
    /\ ret = Idle
    /\ handles[h] # Closed
    /\ Leave(files, [handles EXCEPT ![h] = Closed], cells)
    /\ meta' = IF meta.h = h THEN [meta EXCEPT !.h = 0] ELSE meta
    /\ UNCHANGED <<cwd, listing, other, thr, ret>>

Return ==
    /\ ret # Idle
    /\ ret' = Idle
    /\ UNCHANGED <<files, cwd, listing, other, thr, cells, handles, meta>>

Bufs == {<<b>> : b \in Bytes}

\* The written paths canonicalize is called with: absolute paths of up to
\* three components, and the relative paths "", "." and ".."
RECURSIVE CompSeqs(_)
CompSeqs(n) ==
    IF n = 0 THEN {<<>>}
    ELSE LET S == CompSeqs(n - 1)
         IN  S \cup {Append(s, x) : s \in {t \in S : Len(t) = n - 1},
                                    x \in Names \cup {DotDot}}

\* The written paths read_dir is called with
ListedPaths ==
    {AbsPath(p) : p \in {Root, <<NameSeq[1]>>, <<NameSeq[1], NameSeq[1]>>}}
       \cup {RelPath(<<NameSeq[1]>>)}

\* The written paths set_current_dir is called with
DirPaths ==
    {AbsPath(p) : p \in {Root, <<NameSeq[1]>>, <<NameSeq[2]>>, <<NameSeq[1], NameSeq[1]>>}}
       \cup {RelPath(<<NameSeq[1]>>)}

WrittenPaths ==
    {AbsPath(c) : c \in CompSeqs(MaxDepth)}
       \cup {EmptyPath, RelPath(<<Dot>>), RelPath(<<DotDot>>), AbsPath(<<NameSeq[1], Dot>>)}

Next ==
    \/ \E p \in Paths : CreateDir(p)
    \/ \E p \in Paths, keep \in BOOLEAN : Create(p, keep)
    \/ \E p \in Paths, keep \in BOOLEAN : Overwrite(p, keep)
    \/ \E p \in Paths : Open(p)
    \/ \E p \in Paths : CreateDirAll(p)
    \/ \E p \in Paths : RemoveDir(p)
    \/ \E p \in Paths : RemoveDirAll(p)
    \/ \E p \in Paths : RemoveFile(p)
    \/ \E from, to \in Paths : CopyFile(from, to)
    \/ \E from, to \in Paths : Rename(from, to)
    \/ \E p \in Paths, mode \in ModeTests : SetPermissions(p, mode)
    \/ \E p \in Paths, readonly \in BOOLEAN : SetReadonly(p, readonly)
    \/ \E p \in Paths : Readonly(p)
    \/ \E p \in Paths : Mode(p)
    \/ \E raw \in WrittenPaths : Canonicalize(raw)
    \/ \E raw \in ListedPaths : ReadDir(raw)
    \/ CurrentDir
    \/ \E raw \in DirPaths : SetCurrentDir(raw)
    \/ \E p \in Paths : OtherCreateDir(p)
    \/ \E p \in Paths : OtherSetCurrentDir(p)
    \/ \E p \in Paths, o \in OpenOptions, keep \in BOOLEAN : OpenWithOptions(p, o, keep)
    \/ \E p \in Paths : Metadata(p)
    \/ \E h \in Slots : HandleMetadata(h)
    \/ \E h \in Slots, whence \in Whences : \E off \in SeekOffsets(whence) : Seek(h, whence, off)
    \/ \E h \in Slots, n \in 0..MaxLen : Read(h, n)
    \/ \E h \in Slots, buf \in Bufs : Write(h, buf)
    \/ \E h \in Slots, size \in 0..MaxLen : SetLen(h, size)
    \/ \E h \in Slots : DropHandle(h)
    \/ Return

Spec == Init /\ [][Next]_vars

(* The specifications the properties are checked under take the calls of   *)
(* Next that a group of properties is about.                               *)

\* Building a tree and renaming in it; files are created empty, no handle is
\* kept, and an entry is made read-only or not.
NextRename ==
    \/ \E p \in Paths : CreateDir(p)
    \/ \E p \in Paths : Create(p, FALSE)
    \/ \E p \in Paths : SetPermissions(p, ReadBits)
    \/ \E from, to \in Paths : Rename(from, to)
    \/ Return

SpecRename == Init /\ [][NextRename]_vars

\* Building a tree, changing modes and removing.
NextRemove ==
    \/ \E p \in Paths : CreateDir(p)
    \/ \E p \in Paths : Create(p, FALSE)
    \/ \E p \in Paths, mode \in ModeInputs : SetPermissions(p, mode)
    \/ \E p \in Paths : RemoveDir(p)
    \/ \E p \in Paths : RemoveDirAll(p)
    \/ \E p \in Paths : RemoveFile(p)
    \/ Return

SpecRemove == Init /\ [][NextRemove]_vars

\* Making directories one by one and with their ancestors, among files and
\* directories of every mode, and taking them away again.
NextDirs ==
    \/ \E p \in Paths : CreateDir(p)
    \/ \E p \in Paths : CreateDirAll(p)
    \/ \E p \in Paths : Create(p, FALSE)
    \/ \E p \in Paths, mode \in ModeInputs : SetPermissions(p, mode)
    \/ \E p \in Paths : RemoveDir(p)
    \/ \E p \in Paths : RemoveDirAll(p)
    \/ Return

SpecDirs == Init /\ [][NextDirs]_vars

\* Making directories among renames, which may leave entries without parent.
NextOrphans ==
    \/ \E p \in Paths : CreateDir(p)
    \/ \E p \in Paths : CreateDirAll(p)
    \/ \E from, to \in Paths \ {Root} : Rename(from, to)
    \/ Return

SpecOrphans == Init /\ [][NextOrphans]_vars

\* Files and the handles opened on them, every mode being the default; no
\* rename.
NextHandle ==
    \/ \E p \in Paths : CreateDir(p)
    \/ \E p \in Paths, keep \in BOOLEAN : Create(p, keep)
    \/ \E p \in Paths, keep \in BOOLEAN : Overwrite(p, keep)
    \/ \E p \in Paths : Open(p)
    \/ \E p \in Paths : RemoveDirAll(p)
    \/ \E p \in Paths : RemoveFile(p)
    \/ \E h \in Slots, n \in 1..MaxLen : Read(h, n)
    \/ \E h \in Slots, buf \in Bufs : Write(h, buf)
    \/ \E h \in Slots : DropHandle(h)
    \/ Return

SpecHandle == Init /\ [][NextHandle]_vars

\* Write handles and renames below the root, every mode being the default.
NextFollow ==
    \/ \E p \in Paths : CreateDir(p)
    \/ \E p \in Paths, keep \in BOOLEAN : Create(p, keep)
    \/ \E from, to \in Paths \ {Root} : Rename(from, to)
    \/ \E h \in Slots, buf \in Bufs : Write(h, buf)
    \/ Return

SpecFollow == Init /\ [][NextFollow]_vars

\* Reads, writes, seeks and set_len through a handle on a file in the root.
IoPaths == {<<n>> : n \in Names}

NextIo ==
    \/ \E p \in IoPaths, keep \in BOOLEAN : Create(p, keep)
    \/ \E p \in IoPaths : Open(p)
    \/ \E h \in Slots, whence \in Whences : \E off \in SeekOffsets(whence) : Seek(h, whence, off)
    \/ \E h \in Slots, n \in 0..MaxLen : Read(h, n)
    \/ \E h \in Slots, buf \in Bufs : Write(h, buf)
    \/ \E h \in Slots, size \in 0..MaxLen : SetLen(h, size)
    \/ \E h \in Slots : DropHandle(h)
    \/ Return

SpecIo == Init /\ [][NextIo]_vars

\* Metadata values of the root and of the files in it, taken from paths and
\* from handles, while the files are written, resized and chmod-ed.
MetaPaths == {Root} \cup IoPaths

NextMeta ==
    \/ \E p \in IoPaths, keep \in BOOLEAN : Create(p, keep)
    \/ \E h \in Slots, buf \in Bufs : Write(h, buf)
    \/ \E h \in Slots, size \in 0..MaxLen : SetLen(h, size)
    \/ \E p \in IoPaths : SetPermissions(p, ReadBits)
    \/ \E p \in MetaPaths : Metadata(p)
    \/ \E h \in Slots : HandleMetadata(h)
    \/ \E h \in Slots : DropHandle(h)
    \/ Return

SpecMeta == Init /\ [][NextMeta]_vars

\* Opening with every combination of options, and create, on the chain
\* "/", "/a", "/a/a" of directories and files of every mode.
OpenPaths == {Root, <<NameSeq[1]>>, <<NameSeq[1], NameSeq[1]>>}

NextOpen ==
    \/ \E p \in OpenPaths : CreateDir(p)
    \/ \E p \in OpenPaths, mode \in ModeInputs : SetPermissions(p, mode)
    \/ \E p \in OpenPaths, keep \in BOOLEAN : Create(p, keep)
    \/ \E p \in OpenPaths, o \in OpenOptions, keep \in BOOLEAN : OpenWithOptions(p, o, keep)
    \/ \E h \in Slots, buf \in Bufs : Write(h, buf)
    \/ \E h \in Slots : DropHandle(h)
    \/ Return

SpecOpen == Init /\ [][NextOpen]_vars

\* Copies between two names of the root and one name a level below, among
\* files that are written through handles and entries of every mode.
CopyPaths == IoPaths \cup {<<NameSeq[1], NameSeq[1]>>}

NextCopy ==
    \/ \E p \in CopyPaths : CreateDir(p)
    \/ \E p \in CopyPaths, keep \in BOOLEAN : Create(p, keep)
    \/ \E h \in Slots, buf \in Bufs : Write(h, buf)
    \/ \E h \in Slots : DropHandle(h)
    \/ \E p \in CopyPaths, mode \in ModeInputs : SetPermissions(p, mode)
    \/ \E from, to \in CopyPaths : CopyFile(from, to)
    \/ Return

SpecCopy == Init /\ [][NextCopy]_vars

\* The mode accessors on the root and the two names in it, files and
\* directories, with every mode the tests set.
NextModes ==
    \/ \E p \in IoPaths : CreateDir(p)
    \/ \E p \in IoPaths : Create(p, FALSE)
    \/ \E p \in MetaPaths, mode \in ModeTests : SetPermissions(p, mode)
    \/ \E p \in MetaPaths, readonly \in BOOLEAN : SetReadonly(p, readonly)
    \/ \E p \in MetaPaths : Readonly(p)
    \/ \E p \in MetaPaths : Mode(p)
    \/ Return

SpecModes == Init /\ [][NextModes]_vars

\* Every way of opening one name of the root, as a file of every mode the
\* tests set.
AccessPaths == {<<NameSeq[1]>>}

NextAccess ==
    \/ \E p \in AccessPaths, keep \in BOOLEAN : Create(p, keep)
    \/ \E p \in AccessPaths, keep \in BOOLEAN : Overwrite(p, keep)
    \/ \E p \in AccessPaths : Open(p)
    \/ \E p \in AccessPaths, o \in OpenOptions, keep \in BOOLEAN : OpenWithOptions(p, o, keep)
    \/ \E p \in AccessPaths, mode \in ModeTests : SetPermissions(p, mode)
    \/ \E h \in Slots, buf \in Bufs : Write(h, buf)
    \/ \E h \in Slots : DropHandle(h)
    \/ Return

SpecAccess == Init /\ [][NextAccess]_vars

\* Making, removing and renaming entries in the root and in a directory of
\* the root, either of which is made read-only and writable again.
ChildPaths == IoPaths \cup {<<NameSeq[1], NameSeq[1]>>}

NextChildren ==
    \/ \E p \in ChildPaths : CreateDir(p)
    \/ \E p \in ChildPaths : Create(p, FALSE)
    \/ \E p \in {Root, <<NameSeq[1]>>}, mode \in {ReadBits, DefaultMode} : SetPermissions(p, mode)
    \/ \E p \in ChildPaths : RemoveFile(p)
    \/ \E p \in ChildPaths : RemoveDir(p)
    \/ \E from, to \in ChildPaths : Rename(from, to)
    \/ Return

SpecChildren == Init /\ [][NextChildren]_vars

\* Handles on one file of the root, used after the file's mode or the
\* root's has been changed, or the file removed.
NextLater ==
    \/ \E p \in AccessPaths, keep \in BOOLEAN : Create(p, keep)
    \/ \E p \in AccessPaths : Open(p)
    \/ \E p \in {Root} \cup AccessPaths, mode \in {0, ReadBits, DefaultMode} : SetPermissions(p, mode)
    \/ \E p \in AccessPaths : RemoveFile(p)
    \/ \E h \in Slots, whence \in Whences : \E off \in SeekOffsets(whence) : Seek(h, whence, off)
    \/ \E h \in Slots, n \in 0..MaxLen : Read(h, n)
    \/ \E h \in Slots, buf \in Bufs : Write(h, buf)
    \/ \E h \in Slots, size \in 0..MaxLen : SetLen(h, size)
    \/ \E h \in Slots : DropHandle(h)
    \/ Return

SpecLater == Init /\ [][NextLater]_vars

\* canonicalize among directories and files that are made, removed and
\* renamed, the root among them.
CanonPaths == {Root, <<NameSeq[1]>>, <<NameSeq[2]>>, <<NameSeq[1], NameSeq[1]>>}

NextCanon ==
    \/ \E p \in CanonPaths : CreateDir(p)
    \/ \E p \in CanonPaths : Create(p, FALSE)
    \/ \E p \in CanonPaths : RemoveDir(p)
    \/ \E from, to \in CanonPaths \ {Root} : Rename(from, to)
    \/ \E raw \in WrittenPaths : Canonicalize(raw)
    \/ Return

SpecCanon == Init /\ [][NextCanon]_vars

\* read_dir of the root and of a directory in it, while entries are made
\* and removed at three depths.
NextReadDir ==
    \/ \E p \in Paths : CreateDir(p)
    \/ \E p \in Paths : Create(p, FALSE)
    \/ \E p \in Paths : RemoveDirAll(p)
    \/ \E p \in Paths : RemoveFile(p)
    \/ \E raw \in ListedPaths : ReadDir(raw)
    \/ Return

SpecReadDir == Init /\ [][NextReadDir]_vars

\* The working directory of one FakeFileSystem among creations, removals,
\* renames, copies and opens in it, and that of a second FakeFileSystem.
CwdPaths == {Root, <<NameSeq[1]>>, <<NameSeq[2]>>, <<NameSeq[1], NameSeq[1]>>}

NextCwd ==
    \/ \E p \in CwdPaths : CreateDir(p)
    \/ \E p \in CwdPaths : Create(p, FALSE)
    \/ \E p \in CwdPaths : Open(p)
    \/ \E p \in CwdPaths : RemoveDir(p)
    \/ \E p \in CwdPaths : RemoveDirAll(p)
    \/ \E p \in CwdPaths : RemoveFile(p)
    \/ \E from, to \in CwdPaths \ {Root} : CopyFile(from, to)
    \/ \E from, to \in CwdPaths \ {Root} : Rename(from, to)
    \/ CurrentDir
    \/ \E raw \in DirPaths : SetCurrentDir(raw)
    \/ \E p \in {<<NameSeq[1]>>} : OtherCreateDir(p)
    \/ \E p \in {Root, <<NameSeq[1]>>} : OtherSetCurrentDir(p)
    \/ \E h \in Slots : DropHandle(h)
    \/ Return

SpecCwd == Init /\ [][NextCwd]_vars

----------------------------------------------------------------------------
(* Properties.  A call is the step that sets ret: in such a step the        *)
(* unprimed variables are the state before the call, ret' holds its         *)
(* arguments and its result, and the primed variables the state after it.   *)

\* What the facade shows of a path: kind, mode and, for a file, contents
Entry(f, cs, p) ==
    IF f[p].kind = "Dir"
    THEN [kind |-> "Dir", mode |-> f[p].mode, contents |-> <<>>]
    ELSE [kind |-> "File", mode |-> cs[f[p].id].mode, contents |-> cs[f[p].id].contents]

Tree(f, cs) == [p \in DOMAIN f |-> Entry(f, cs, p)]

Before == Tree(files, cells)
After == Tree(files', cells')

\* q lies below p
Under(q, p) == Len(q) > Len(p) /\ \A i \in 1..Len(p) : q[i] = p[i]
AtOrUnder(q, p) == q = p \/ Under(q, p)

\* Every entry but the root has its parent, and the parent is a directory
IsTree(f) ==
    \A p \in DOMAIN f \ {Root} : Parent(p) \in DOMAIN f /\ f[Parent(p)].kind = "Dir"

\* C4: remove_dir_all(P) on a directory P is all-or-nothing.  It fails with
\* PermissionDenied, changing nothing, exactly when P has no write bit or
\* some entry below P has no read bit; otherwise it succeeds, and afterwards
\* exactly P and the entries below P are gone and every other entry (a
\* sibling whose name starts with P's name included) is as before.
C4_RemoveDirAllAllOrNothing ==
    [][(/\ ret'.op = "remove_dir_all"
        /\ ret'.path \in DOMAIN files
        /\ files[ret'.path].kind = "Dir")
       => LET P == ret'.path
              denied ==
                  \/ BitAnd(Before[P].mode, WriteBits) = 0
                  \/ \E q \in DOMAIN files :
                        Under(q, P) /\ BitAnd(Before[q].mode, ReadBits) = 0
          IN  IF denied
              THEN ret'.res = "PermissionDenied" /\ After = Before
              ELSE /\ ret'.res = "Ok"
                   /\ After = [q \in {x \in DOMAIN files : ~AtOrUnder(x, P)} |-> Before[q]]
      ]_vars

\* C4 witness: remove_dir_all("/a") has succeeded and the sibling "/ab" is
\* still there
C4_SiblingSurvives ==
    /\ ret.op = "remove_dir_all"
    /\ ret.path = <<"a">>
    /\ ret.res = "Ok"
    /\ <<"ab">> \in DOMAIN files
    /\ <<"a">> \notin DOMAIN files

\* C6: after any sequence of calls the root "/" is present in the registry
\* as a Dir.
C6_RootIsAlwaysDir == Root \in DOMAIN files /\ files[Root].kind = "Dir"

\* C5: whenever rename(from, to) returns an error the registry is exactly as
\* before the call: the same paths, each with the same kind, contents and
\* mode.
C5_FailedRenameChangesNothing ==
    [][(ret'.op = "rename" /\ ret'.res # "Ok") => After = Before]_vars

\* C7: between calls every entry other than the root has its parent present
\* in the registry as a Dir.
C7_NoOrphans == IsTree(files)

\* What a step must do to move a directory's subtree (C8)
RenameMovesSubtree ==
    (/\ ret'.op = "rename"
      /\ ret'.res = "Ok"
      /\ ret'.path \in DOMAIN files
      /\ files[ret'.path].kind = "Dir"
      /\ \/ ret'.to \notin DOMAIN files
         \/ /\ files[ret'.to].kind = "Dir"
            /\ ~\E q \in DOMAIN files : Under(q, ret'.to))
     => LET from == ret'.path
            to == ret'.to
        IN  /\ \A s \in DOMAIN files :
                  AtOrUnder(s, from)
                  => /\ Rebase(s, from, to) \in DOMAIN files'
                     /\ After[Rebase(s, from, to)] = Before[s]
            /\ \A q \in DOMAIN files' : ~AtOrUnder(q, from)
            /\ \A q \in DOMAIN files \cup DOMAIN files' :
                  (~AtOrUnder(q, from) /\ ~AtOrUnder(q, to))
                  => /\ q \in DOMAIN files
                     /\ q \in DOMAIN files'
                     /\ After[q] = Before[q]

\* C8: a successful rename(from, to) of a directory, with to absent or an
\* empty directory, moves the whole subtree: every entry at or below from is
\* afterwards at the same place below to with the same kind, contents and
\* mode, no entry is left at or below from, and the entries outside from and
\* to are as before.
C8_DirRenameMovesSubtree == [][RenameMovesSubtree]_vars

\* The same for the calls that find the registry a tree
C8_OnTrees == [][IsTree(files) => RenameMovesSubtree]_vars

\* C9: rename(from, to) with from and to two existing files replaces the
\* destination: afterwards from is absent and to holds the contents from
\* had; a handle opened on the old destination keeps the old destination's
\* contents.
C9_FileOntoFileReplaces ==
    [][(/\ ret'.op = "rename"
        /\ ret'.path # ret'.to
        /\ ret'.path \in DOMAIN files
        /\ ret'.to \in DOMAIN files
        /\ files[ret'.path].kind = "File"
        /\ files[ret'.to].kind = "File")
       => /\ ret'.path \notin DOMAIN files'
          /\ ret'.to \in DOMAIN files'
          /\ After[ret'.to] = Before[ret'.path]
          /\ \A h \in Slots :
                (handles[h] # Closed /\ handles[h].id = files[ret'.to].id)
                => /\ handles'[h] # Closed
                   /\ cells'[handles'[h].id].contents = cells[handles[h].id].contents
      ]_vars

\* C10: rename(from, to) fails with NotFound when from is absent, and with
\* Other when from is a file and to a directory, when from is a directory
\* and to a file, and when both are directories and to has an entry below
\* it; in each case the registry is as before.
C10_RenameRefusals ==
    [][ret'.op = "rename"
       => LET from == ret'.path
              to == ret'.to
          IN  /\ from \notin DOMAIN files
                 => ret'.res = "NotFound" /\ After = Before
              /\ (/\ from \in DOMAIN files
                  /\ to \in DOMAIN files
                  /\ \/ files[from].kind # files[to].kind
                     \/ /\ files[from].kind = "Dir"
                        /\ \E q \in DOMAIN files : Under(q, to))
                 => ret'.res = "Other" /\ After = Before
      ]_vars

\* C10 witness: a rename of a directory onto another, non-empty directory
\* has been refused
C10_NonEmptyTargetRefused ==
    /\ ret.op = "rename"
    /\ ret.res = "Other"
    /\ ret.path # ret.to
    /\ ret.path \in DOMAIN files
    /\ ret.to \in DOMAIN files
    /\ files[ret.path].kind = "Dir"
    /\ files[ret.to].kind = "Dir"
    /\ \E q \in DOMAIN files : Under(q, ret.to)

\* The handle in slot h is open and no path of the registry holds its cell
Unlinked(f, hs, h) ==
    /\ hs[h] # Closed
    /\ \A p \in DOMAIN f : f[p].kind = "File" => f[p].id # hs[h].id

\* The bytes a handle's reads and writes act on
HandleBytes(hs, cs, h) == cs[hs[h].id].contents

\* What a step must do for a handle to keep the bytes of a removed file (C1)
HandleKeepsBytes ==
    /\ (ret'.op \in {"remove_file", "remove_dir_all"} /\ ret'.res = "Ok")
       => /\ \A q \in DOMAIN files' : ~AtOrUnder(q, ret'.path)
          /\ \A h \in Slots :
                handles[h] # Closed
                => /\ handles'[h] # Closed
                   /\ handles'[h].pos = handles[h].pos
                   /\ handles'[h].access = handles[h].access
                   /\ HandleBytes(handles', cells', h) = HandleBytes(handles, cells, h)
    /\ \A h \in Slots :
          (/\ Unlinked(files, handles, h)
           /\ handles'[h] # Closed
           /\ ~(/\ ret'.op = "write"
                /\ ret.op = "idle"
                /\ handles[ret'.h].id = handles[h].id))
          => /\ Unlinked(files', handles', h)
             /\ HandleBytes(handles', cells', h) = HandleBytes(handles, cells, h)
    /\ (/\ ret'.op \in {"read", "write"}
        /\ ret.op = "idle"
        /\ Unlinked(files, handles, ret'.h))
       => After = Before
    /\ (ret'.op = "read" /\ ret.op = "idle" /\ handles[ret'.h].access = "Read")
       => LET c == HandleBytes(handles, cells, ret'.h)
              pos == handles[ret'.h].pos
          IN  /\ ret'.res = "Ok"
              /\ ret'.data = SubSeq(c, pos + 1, pos + Len(ret'.data))
              /\ handles'[ret'.h].pos = pos + Len(ret'.data)
              /\ Len(ret'.data) = 0 => pos >= Len(c)

\* C1: a read handle opened on file P keeps its bytes after P's path
\* disappears.  A successful remove_file(P), or remove_dir_all of an ancestor
\* of P, leaves no entry at or below the removed path and leaves every open
\* handle its cursor and its bytes; from then on no call but a write through
\* a handle on the same file changes the handle's bytes (a file created at P
\* afterwards is another file), no read or write through the handle changes any entry of
\* the registry, and reading the handle delivers its bytes from the cursor
\* on, up to their end.
C1_HandleKeepsBytesOfRemovedFile == [][HandleKeepsBytes]_vars

\* C1 witness: a handle whose file was removed has just read the byte the
\* file had, while a file created since is empty
C1_ReadAfterRemoveAndRecreate ==
    /\ ret.op = "read"
    /\ ret.res = "Ok"
    /\ ret.data = <<1>>
    /\ Unlinked(files, handles, ret.h)
    /\ \E p \in DOMAIN files : files[p].kind = "File" /\ cells[files[p].id].contents = <<>>

\* The earlier handles on the file a create or truncating open rewrites
EarlierHandles == {h \in Slots : handles[h] # Closed /\ handles[h].id = files[ret'.path].id}

Overwrites ==
    /\ ret'.op \in {"create", "overwrite"}
    /\ ret'.res = "Ok"
    /\ ret'.path \in DOMAIN files

\* C3: when the file at an existing path P is overwritten (create(P) or a
\* truncating write open on P) while a handle opened earlier on P is alive,
\* the path's entry is given a new content cell and the earlier handle keeps
\* the old cell, with the bytes the file had before the overwrite.
C3_OverwriteGivesNewCell ==
    [][Overwrites
       => \A h \in EarlierHandles :
             /\ handles'[h].id # files'[ret'.path].id
             /\ HandleBytes(handles', cells', h) = HandleBytes(handles, cells, h)
      ]_vars

\* C3 as amended: the overwrite empties the file's own cell in place; the
\* path and the earlier handle still share that cell, so the handle, its
\* cursor unmoved, reads the new bytes and not the old ones.
C3_OverwriteRewritesSharedCell ==
    [][Overwrites
       => \A h \in EarlierHandles :
             /\ handles'[h].id = files'[ret'.path].id
             /\ handles'[h].pos = handles[h].pos
             /\ handles'[h].access = handles[h].access
             /\ HandleBytes(handles', cells', h) = <<>>
             /\ After[ret'.path].contents = <<>>
      ]_vars

\* C3 witness: a file has been overwritten while an earlier handle that had
\* moved past its first byte is open on it
C3_OverwrittenUnderHandle ==
    /\ ret.op \in {"create", "overwrite"}
    /\ ret.res = "Ok"
    /\ ret.h = 0
    /\ \E h \in Slots :
          /\ handles[h] # Closed
          /\ handles[h].id = files[ret.path].id
          /\ handles[h].pos > 0

\* What a step must do for a write handle to follow its file (C2)
HandleFollowsFile ==
    /\ (ret'.op = "rename" /\ ret'.res = "Ok")
       => \A h \in Slots, P \in DOMAIN files :
             (/\ handles[h].access = "Write"
              /\ files[P].kind = "File"
              /\ files[P].id = handles[h].id
              /\ \/ P = ret'.path
                 \/ Under(P, ret'.path) /\ files[ret'.path].kind = "Dir")
             => LET Q == Rebase(P, ret'.path, ret'.to)
                IN  /\ P \notin DOMAIN files'
                    /\ Q \in DOMAIN files'
                    /\ files'[Q].kind = "File"
                    /\ handles'[h].access = "Write"
                    /\ handles'[h].pos = handles[h].pos
                    /\ files'[Q].id = handles'[h].id
    /\ (ret'.op = "write" /\ ret.op = "idle" /\ handles[ret'.h].access = "Write")
       => /\ ret'.res = "Ok"
          /\ \A P \in DOMAIN files :
                (files[P].kind = "File" /\ files[P].id = handles[ret'.h].id)
                => LET pos == handles[ret'.h].pos
                   IN  /\ P \in DOMAIN files'
                       /\ SubSeq(After[P].contents, pos + 1, pos + Len(ret'.data))
                              = ret'.data

\* C2: a handle follows the file, not the path.  When a write handle is open
\* on P and P is renamed, or a directory above P is renamed or moved under
\* another directory, the old path is absent afterwards and the file the
\* handle writes to is the one at the new path; every write through a write
\* handle succeeds and its bytes are in the contents of the path that holds
\* the file.
C2_WriteHandleFollowsFile == [][HandleFollowsFile]_vars

\* The same for the calls that find the registry a tree
C2_OnTrees == [][IsTree(files) => HandleFollowsFile]_vars

----------------------------------------------------------------------------
(* Seeking *)

\* The handle a step's call went through, before and after the step
Hd == handles[ret'.h]
HdAfter == handles'[ret'.h]
HdContents == cells[handles[ret'.h].id].contents
HdContentsAfter == cells'[handles[ret'.h].id].contents

\* The target of the seek of this step: start, cursor or length, plus offset
SeekGoal ==
    LET whence == ret'.arg[1]
        off == ret'.arg[2]
    IN  CASE whence = "Start"   -> off
          [] whence = "End"     -> Len(HdContents) + off
          [] whence = "Current" -> Hd.pos + off

SeekAsClaimed ==
    /\ HdContentsAfter = HdContents
    /\ IF SeekGoal < 0
       THEN ret'.res = "InvalidInput" /\ HdAfter.pos = Hd.pos
       ELSE ret'.res = "Ok" /\ HdAfter.pos = SeekGoal

\* C11: a seek to a negative target fails with InvalidInput and leaves the
\* cursor where it was; a seek to a non-negative target sets the cursor
\* exactly there, also past the end, and leaves the contents as they were.
C11_SeekSetsCursor ==
    [][ret'.op = "seek" /\ ret.op = "idle" => SeekAsClaimed]_vars

\* C11 where the offset and the target are values of i64: there it holds.
C11_SeekInRange ==
    [][ret'.op = "seek" /\ ret.op = "idle" /\ ret'.arg[2] \in I64 /\ SeekGoal \in I64
          => SeekAsClaimed]_vars

\* A seek past the end has moved the cursor there
C11_SoughtPastEnd ==
    /\ ret.op = "seek" /\ ret.res = "Ok"
    /\ handles[ret.h].pos > Len(cells[handles[ret.h].id].contents)

\* A seek whose target is no value of i64 has panicked
C11_SeekPanicked == ret.op = "seek" /\ ret.res = "Panic"
----------------------------------------------------------------------------
(* Reading and writing at the cursor *)

Max(a, b) == IF a > b THEN a ELSE b

\* C12: a read through a read handle into a buffer of blen bytes delivers
\* n = min(max(0, length - cursor), blen) bytes, the contents from the cursor
\* on, advances the cursor by n and returns n; at or past the end it returns
\* 0 without an error; it changes neither the contents nor the tree.
C12_ReadDeliversFromCursor ==
    [][ret'.op = "read" /\ ret.op = "idle" /\ Hd.access = "Read" =>
          LET n == Min(Max(0, Len(HdContents) - Hd.pos), ret'.arg[1])
          IN  /\ ret'.res = "Ok"
              /\ Len(ret'.data) = n
              /\ \A i \in 1..n : ret'.data[i] = HdContents[Hd.pos + i]
              /\ HdAfter.pos = Hd.pos + n
              /\ cells' = cells /\ files' = files]_vars

\* A read with room in the buffer has returned 0 past the end of the contents
C12_ReadPastEnd ==
    /\ ret.op = "read" /\ ret.res = "Ok" /\ ret.arg[1] > 0 /\ ret.data = <<>>
    /\ handles[ret.h].pos > Len(cells[handles[ret.h].id].contents)

\* C13: a write of buf through a write handle at cursor c on contents of
\* length L leaves contents of length max(L, c + len(buf)) whose bytes at
\* [c, c + len(buf)) are buf, whose other bytes below L are as before and
\* whose bytes in [L, c) are zero; the cursor is c + len(buf) and the call
\* returns len(buf).
C13_WriteAtCursor ==
    [][ret'.op = "write" /\ ret.op = "idle" /\ Hd.access = "Write" =>
          LET L == Len(HdContents)
              c == Hd.pos
              buf == ret'.data
          IN  /\ ret'.res = "Ok" /\ ret'.arg = <<Len(buf)>>
              /\ HdAfter.pos = c + Len(buf)
              /\ Len(HdContentsAfter) = Max(L, c + Len(buf))
              /\ \A i \in 1..Len(HdContentsAfter) :
                     HdContentsAfter[i] =
                         IF i > c /\ i <= c + Len(buf) THEN buf[i - c]
                         ELSE IF i <= L THEN HdContents[i] ELSE 0]_vars

\* A write past the end has filled the gap with a zero
C13_WroteBeyondEnd ==
    /\ ret.op = "write" /\ ret.res = "Ok"
    /\ cells[handles[ret.h].id].contents = <<0>> \o ret.data

\* A write before the end has left the byte after it
C13_WroteInside ==
    /\ ret.op = "write" /\ ret.res = "Ok"
    /\ handles[ret.h].pos < Len(cells[handles[ret.h].id].contents)
----------------------------------------------------------------------------
(* The access mode of a handle *)

\* C14: a read through a write handle, and a write or a set_len through a
\* read handle, fail with Other and change neither the contents nor the
\* cursor; the access mode of an open handle never changes.
C14_AccessModeIsFixed ==
    [][/\ ret.op = "idle" /\ ret'.op = "read" /\ Hd.access = "Write"
            => ret'.res = "Other" /\ cells' = cells /\ handles' = handles
       /\ ret.op = "idle" /\ ret'.op \in {"write", "set_len"} /\ Hd.access = "Read"
            => ret'.res = "Other" /\ cells' = cells /\ handles' = handles
       /\ \A h \in Slots : handles[h] # Closed /\ handles'[h] # Closed
                               => handles'[h].access = handles[h].access]_vars

\* A read handle with its cursor inside a file has refused a set_len
C14_SetLenRefused ==
    /\ ret.op = "set_len" /\ ret.res = "Other" /\ ret.arg[1] = 0
    /\ handles[ret.h].access = "Read" /\ handles[ret.h].pos > 0
    /\ cells[handles[ret.h].id].contents # <<>>

\* A write handle has refused a read
C14_ReadRefused ==
    /\ ret.op = "read" /\ ret.res = "Other" /\ ret.arg[1] > 0
    /\ handles[ret.h].access = "Write"
    /\ handles[ret.h].pos < Len(cells[handles[ret.h].id].contents)
----------------------------------------------------------------------------
(* set_len *)

\* The paths at which the file of the step's handle is linked
HdPaths == {p \in DOMAIN files : IsFileAt(St, p) /\ files[p].id = Hd.id}

\* C15: set_len(size) through a write handle leaves contents of exactly size
\* bytes: the first min(old length, size) bytes are as before, every added
\* byte is zero, the cursor is where it was, and reading the file through
\* its path delivers the contents of the new length.
C15_SetLenResizes ==
    [][ret'.op = "set_len" /\ ret.op = "idle" /\ Hd.access = "Write" =>
          LET size == ret'.arg[1]
          IN  /\ ret'.res = "Ok"
              /\ Len(HdContentsAfter) = size
              /\ \A i \in 1..size :
                     HdContentsAfter[i] = IF i <= Len(HdContents) THEN HdContents[i] ELSE 0
              /\ HdAfter.pos = Hd.pos
              /\ \A p \in HdPaths :
                     /\ ReadToEnd(St', p).res = "Ok"
                     /\ ReadToEnd(St', p).data = HdContentsAfter
                     /\ Len(ReadToEnd(St', p).data) = size]_vars

\* set_len has truncated a linked file below the cursor of its handle
C15_TruncatedBelowCursor ==
    /\ ret.op = "set_len" /\ ret.res = "Ok"
    /\ \E p \in DOMAIN files : IsFileAt(St, p) /\ files[p].id = handles[ret.h].id
    /\ ret.arg[1] < handles[ret.h].pos
    /\ Len(cells[handles[ret.h].id].contents) = ret.arg[1]

\* set_len has extended a file with a zero
C15_ExtendedWithZero ==
    /\ ret.op = "set_len" /\ ret.res = "Ok"
    /\ cells[handles[ret.h].id].contents = <<1, 0>>
----------------------------------------------------------------------------
(* Metadata values *)

\* The cell of the file the metadata call of this step asks about
AskedCell ==
    IF ret'.op = "metadata" THEN cells[files[ret'.path].id] ELSE cells[Hd.id]

\* C16: a metadata value from metadata(path) or from a handle's metadata()
\* has the length, kind and permissions the file has at the call, and
\* no later write, truncation or permission change alters it: the value
\* the caller holds changes only by a metadata call that succeeds.
C16_MetadataIsSnapshot ==
    [][IF ret.op = "idle" /\ ret'.op \in {"metadata", "handle_metadata"} /\ ret'.res = "Ok"
       THEN /\ meta'.held
            /\ IF ret'.op = "metadata" /\ IsDirAt(St, ret'.path)
               THEN /\ meta'.value.is_dir
                    /\ meta'.value.permissions = files[ret'.path].mode
               ELSE /\ ~meta'.value.is_dir
                    /\ meta'.value.len = Len(AskedCell.contents)
                    /\ meta'.value.permissions = AskedCell.mode
       ELSE meta'.value = meta.value /\ meta'.held = meta.held]_vars

\* The caller holds a value whose length and permissions the file of the
\* handle it came from no longer has
C16_SnapshotOutlived ==
    /\ meta.held /\ meta.h # 0 /\ handles[meta.h] # Closed
    /\ meta.value.len # Len(cells[handles[meta.h].id].contents)
    /\ meta.value.permissions # cells[handles[meta.h].id].mode

\* The caller holds the value of a path's file that has been written since
C16_PathSnapshotOutlived ==
    /\ meta.held /\ meta.h = 0 /\ ~meta.value.is_dir
    /\ \A p \in IoPaths : IsFileAt(St, p) /\ meta.value.len # Len(ReadToEnd(St, p).data)
    /\ ret.op = "write"

\* The step is a handle's metadata() call that follows one on the same
\* handle with no write or set_len through that handle between them
SecondCall ==
    /\ ret.op = "idle" /\ ret'.op = "handle_metadata"
    /\ meta.held /\ meta.h = ret'.h /\ meta.clean

\* C17: two successive metadata() calls on the same handle, with no write
\* made through that handle between them, report the same length, also
\* when the path was rewritten with contents of another length between them.
C17_SameLengthTwice ==
    [][SecondCall => meta'.value.len = meta.value.len]_vars

\* C17, amended: the second call reports the length the file has at the
\* second call, which is the length of what an open and read to the end of
\* each path of the file delivers; it is the length of the first call only
\* if the file then has that length again.
C17_SecondCallReportsCurrentLength ==
    [][SecondCall =>
          /\ meta'.value.len = Len(HdContents)
          /\ \A p \in HdPaths : ReadToEnd(St, p).res = "Ok"
                                     => meta'.value.len = Len(ReadToEnd(St, p).data)
          /\ meta'.prev = <<meta.value.len>>
          /\ (meta'.value.len = meta.value.len) <=> (Len(HdContents) = meta.value.len)]_vars

\* A second call has reported another length than the first, with no write
\* through the handle between them: create(P) has emptied the file
C17_SecondCallDiffers ==
    /\ ret.op = "handle_metadata" /\ meta.prev # <<>>
    /\ meta.prev[1] # meta.value.len
    /\ meta.value.len = 0
----------------------------------------------------------------------------
(* Opening with options *)

\* The flags that are set in the options of the step's open_with_options
FlagsSet == {f \in Flags : ret'.arg[1][f]}

\* The five combinations of flags
Accepted ==
    {{"create", "truncate", "write"}, {"read"}, {"write"},
     {"create_new", "write"}, {"truncate", "write"}}

C18_OpenedWritable ==
    /\ ret.op = "open_with_options" /\ ret.res = "Ok" /\ ret.h # 0
    /\ ret.arg[1] = Options({"write"})
    /\ handles[ret.h].access = "Write" /\ handles[ret.h].pos = 0
    /\ cells[handles[ret.h].id].contents # <<>>
----------------------------------------------------------------------------
(* create_new and create *)

\* The handle a successful open of path p has returned, if the caller kept it
ReturnedWriteHandle(p) ==
    ret'.h # 0 => /\ handles'[ret'.h].access = "Write"
                  /\ handles'[ret'.h].pos = 0
                  /\ handles'[ret'.h].id = files'[p].id

\* The file at p is there and empty after the step
EmptyFileAfter(p) ==
    /\ p \in DOMAIN files' /\ files'[p].kind = "File"
    /\ cells'[files'[p].id].contents = <<>>

\* Only p has been added to the tree, and no entry has changed its mode
OnlyAdded(p) ==
    /\ DOMAIN files' = DOMAIN files \cup {p}
    /\ \A q \in DOMAIN files : Entry(files', cells', q) = Entry(files, cells, q)

\* C19: opening with create_new+write fails with AlreadyExists whenever the
\* path is present, as a file or a directory and whatever its mode, and
\* leaves the entry, its contents and its mode as they were; when the path
\* is absent and its parent is a writable directory, it creates an empty
\* file and returns a write handle with cursor 0.
C19_CreateNew ==
    [][ret'.op = "open_with_options" /\ ret.op = "idle"
         /\ FlagsSet = {"create_new", "write"} =>
          LET p == ret'.path
          IN  /\ IsPresent(St, p) =>
                    /\ ret'.res = "AlreadyExists" /\ ret'.h = 0
                    /\ files' = files /\ cells' = cells /\ handles' = handles
              /\ (~IsPresent(St, p) /\ p # Root /\ IsDirAt(St, Parent(p))
                     /\ CanWrite(NodeMode(St, Parent(p)))) =>
                    /\ ret'.res = "Ok"
                    /\ EmptyFileAfter(p) /\ OnlyAdded(p)
                    /\ cells'[files'[p].id].mode = DefaultMode
                    /\ ReturnedWriteHandle(p)]_vars

\* create_new+write has been refused on a file that has bytes and no write bit
C19_RefusedOnReadOnlyFile ==
    /\ ret.op = "open_with_options" /\ ret.res = "AlreadyExists"
    /\ ret.arg[1] = Options({"create_new", "write"})
    /\ IsFileAt(St, ret.path) /\ ~CanWrite(NodeMode(St, ret.path))
    /\ cells[files[ret.path].id].contents # <<>>

\* create_new+write has been refused on a directory
C19_RefusedOnDir ==
    /\ ret.op = "open_with_options" /\ ret.res = "AlreadyExists"
    /\ ret.arg[1] = Options({"create_new", "write"})
    /\ IsDirAt(St, ret.path) /\ ret.path # Root

\* create_new+write has made a file and returned its handle
C19_Created ==
    /\ ret.op = "open_with_options" /\ ret.res = "Ok" /\ ret.h # 0
    /\ ret.arg[1] = Options({"create_new", "write"})
    /\ Len(ret.path) = 2 /\ files[ret.path].id = handles[ret.h].id

\* What create(p) does in each of the four cases of the path
CreateCases(p) ==
    /\ (~IsPresent(St, p) /\ p # Root /\ IsDirAt(St, Parent(p))
           /\ CanWrite(NodeMode(St, Parent(p)))) =>
          /\ ret'.res = "Ok" /\ EmptyFileAfter(p) /\ OnlyAdded(p)
    /\ (IsFileAt(St, p) /\ CanWrite(NodeMode(St, p))) =>
          /\ ret'.res = "Ok" /\ EmptyFileAfter(p)
          /\ DOMAIN files' = DOMAIN files
    /\ (IsFileAt(St, p) /\ ~CanWrite(NodeMode(St, p))) =>
          /\ ret'.res = "PermissionDenied"
          /\ files' = files /\ cells' = cells /\ handles' = handles
    /\ IsDirAt(St, p) =>
          /\ ret'.res = "Other"
          /\ files' = files /\ cells' = cells /\ handles' = handles

\* The registry after buf is written through the handle the step returned
AfterWriting(buf) ==
    LET hd == handles'[ret'.h]
        w == WriteHandle(hd, cells'[hd.id].contents, buf)
    IN  [files |-> files', cells |-> [cells' EXCEPT ![hd.id].contents = w.contents]]

\* The step is a create that succeeded and whose handle the caller holds
Created == ret.op = "idle" /\ ret'.op = "create" /\ ret'.res = "Ok" /\ ret'.h # 0

\* C20: create(P) makes a new empty file if P is absent under a writable
\* directory, empties P if it is a writable file, fails with
\* PermissionDenied and leaves the contents if P is a file without write
\* bits, and fails with Other if P is a directory; after a successful
\* create(P), writing B through the returned handle and then reading P to
\* the end yields exactly B.
C20_CreateOrTruncate ==
    [][/\ ret.op = "idle" /\ ret'.op = "create" => CreateCases(ret'.path)
       /\ Created => /\ ReturnedWriteHandle(ret'.path)
                     /\ \A buf \in Bufs :
                            ReadToEnd(AfterWriting(buf), ret'.path)
                                = [res |-> "Ok", data |-> buf]]_vars

\* C20, amended: the same, the bytes written being what P holds and what a
\* read of P to the end yields if the file has a read bit; if it has none,
\* opening P for the read fails with PermissionDenied.
C20_CreateOrTruncateReadable ==
    [][/\ ret.op = "idle" /\ ret'.op = "create" => CreateCases(ret'.path)
       /\ Created =>
            /\ ReturnedWriteHandle(ret'.path)
            /\ \A buf \in Bufs :
                  LET st == AfterWriting(buf)
                      p == ret'.path
                  IN  /\ st.cells[st.files[p].id].contents = buf
                      /\ ReadToEnd(st, p) =
                            IF CanRead(NodeMode(st, p))
                            THEN [res |-> "Ok", data |-> buf]
                            ELSE [res |-> "PermissionDenied", data |-> <<>>]]_vars

\* create has emptied a file that has a write bit and no read bit
C20_CreatedOnWriteOnly ==
    /\ ret.op = "create" /\ ret.res = "Ok" /\ ret.h # 0
    /\ ~CanRead(NodeMode(St, ret.path))

\* create has been refused on a file that has bytes and no write bit
C20_RefusedOnReadOnly ==
    /\ ret.op = "create" /\ ret.res = "PermissionDenied"
    /\ IsFileAt(St, ret.path) /\ cells[files[ret.path].id].contents # <<>>

\* The bytes written through a handle at the start of an empty file are the
\* contents of the file at its path
C20_WrittenThrough ==
    /\ ret.op = "write" /\ ret.res = "Ok"
    /\ \E p \in DOMAIN files :
          /\ IsFileAt(St, p) /\ files[p].id = handles[ret.h].id
          /\ ReadToEnd(St, p) = [res |-> "Ok", data |-> ret.data]
----------------------------------------------------------------------------
(* The write opens that do not create *)

\* C21: opening with write alone and with truncate+write needs a file that
\* is there and can be written: both fail with NotFound on an absent path
\* and create nothing, with PermissionDenied on a file without write bits,
\* with Other on a directory, leaving everything as it was; on success
\* write alone leaves the contents and has the cursor at 0, and
\* truncate+write leaves the file empty.
C21_WriteOpensNeedWritableFile ==
    [][ret'.op = "open_with_options" /\ ret.op = "idle"
         /\ FlagsSet \in {{"write"}, {"truncate", "write"}} =>
          LET p == ret'.path
          IN  /\ ret'.res = (IF ~IsPresent(St, p) THEN "NotFound"
                              ELSE IF IsDirAt(St, p) THEN "Other"
                              ELSE IF ~CanWrite(NodeMode(St, p)) THEN "PermissionDenied"
                              ELSE "Ok")
              /\ ret'.res # "Ok" =>
                    ret'.h = 0 /\ files' = files /\ cells' = cells /\ handles' = handles
              /\ ret'.res = "Ok" =>
                    /\ ReturnedWriteHandle(p)
                    /\ \A q \in DOMAIN After : q # p => q \in DOMAIN Before /\ After[q] = Before[q]
                    /\ DOMAIN After = DOMAIN Before
                    /\ After[p] = IF FlagsSet = {"write"} THEN Before[p]
                                  ELSE [Before[p] EXCEPT !.contents = <<>>]]_vars

\* write alone has found no file where create would have made one
C21_NotFoundNotCreated ==
    /\ ret.op = "open_with_options" /\ ret.res = "NotFound"
    /\ ret.arg[1] = Options({"write"})
    /\ ret.path # Root /\ GetDirWritable(St, Parent(ret.path)) = "Ok"
    /\ ~IsPresent(St, ret.path)

\* write alone has opened a file with bytes, the cursor at 0
C21_OpenedAtStart ==
    /\ ret.op = "open_with_options" /\ ret.res = "Ok" /\ ret.h # 0
    /\ ret.arg[1] = Options({"write"})
    /\ handles[ret.h] = [id |-> files[ret.path].id, pos |-> 0, access |-> "Write"]
    /\ Len(cells[files[ret.path].id].contents) > 0

\* truncate+write has been refused on a file without write bits
C21_TruncateRefused ==
    /\ ret.op = "open_with_options" /\ ret.res = "PermissionDenied"
    /\ ret.arg[1] = Options({"truncate", "write"})
    /\ Len(cells[files[ret.path].id].contents) > 0
----------------------------------------------------------------------------
(* Creating and removing directories *)

\* C22: create_dir(P) fails with AlreadyExists if P is present, with
\* NotFound if P's parent is absent, and with PermissionDenied if the
\* parent directory has no write bit; whenever it fails the tree is as
\* before, and when it succeeds exactly P has been added, a directory of
\* the default mode, every other entry being as before.
C22_CreateDir ==
    [][ret'.op = "create_dir" /\ ret.op = "idle" =>
          LET p == ret'.path
          IN  /\ IsPresent(St, p) => ret'.res = "AlreadyExists"
              /\ (~IsPresent(St, p) /\ p # Root /\ ~IsPresent(St, Parent(p)))
                    => ret'.res = "NotFound"
              /\ (~IsPresent(St, p) /\ p # Root /\ IsDirAt(St, Parent(p))
                     /\ ~CanWrite(NodeMode(St, Parent(p))))
                    => ret'.res = "PermissionDenied"
              /\ ret'.res # "Ok" => After = Before
              /\ ret'.res = "Ok" =>
                    /\ p \notin DOMAIN Before
                    /\ DOMAIN After = DOMAIN Before \cup {p}
                    /\ After[p] = [kind |-> "Dir", mode |-> DefaultMode, contents |-> <<>>]
                    /\ \A q \in DOMAIN Before : After[q] = Before[q]]_vars

\* create_dir has been refused under a directory without write bits
C22_RefusedUnderReadOnly ==
    /\ ret.op = "create_dir" /\ ret.res = "PermissionDenied"
    /\ Len(ret.path) = 2 /\ IsDirAt(St, Parent(ret.path))

\* create_dir has found no parent
C22_NoParent ==
    /\ ret.op = "create_dir" /\ ret.res = "NotFound"
    /\ Root \in DOMAIN files /\ Len(ret.path) = 2

\* create_dir has made a directory below another
C22_Made ==
    /\ ret.op = "create_dir" /\ ret.res = "Ok"
    /\ Len(ret.path) = 2 /\ IsDirAt(St, ret.path)

\* P and its ancestors, the root among them
Prefixes(p) == {SubSeq(p, 1, k) : k \in 0..Len(p)}

\* The deepest of P and its ancestors that is there before the step
DeepestPresent(p) ==
    CHOOSE q \in Prefixes(p) \cap DOMAIN files :
        \A x \in Prefixes(p) \cap DOMAIN files : Len(x) <= Len(q)

CreateDirAllAsClaimed ==
    LET p == ret'.path
        again == CreateDirAllReg(St', p)
    IN  /\ ret'.res = "Ok" =>
              /\ \A q \in Prefixes(p) : q \in DOMAIN After /\ After[q].kind = "Dir"
              /\ \A q \in DOMAIN Before : q \in DOMAIN After /\ After[q] = Before[q]
              /\ DOMAIN After = DOMAIN Before \cup Prefixes(p)
              /\ again.res = "Ok" /\ Tree(again.files, again.cells) = After
        /\ (\E q \in Prefixes(p) : IsFileAt(St, q)) => ret'.res # "Ok"
        /\ (/\ ~IsPresent(St, p) /\ Prefixes(p) \cap DOMAIN files # {}
            /\ IsDirAt(St, DeepestPresent(p))
            /\ ~CanWrite(NodeMode(St, DeepestPresent(p))))
              => ret'.res = "PermissionDenied"
        /\ ret'.res # "Ok" => After = Before

\* C23: when create_dir_all(P) succeeds, P and every ancestor of P are
\* directories, the entries that were there are as before, and a second
\* call succeeds and changes nothing; it fails when P or an ancestor is a
\* file, and when something must be made under a deepest existing ancestor
\* that has no write bit; whenever it fails the tree is as before.
C23_CreateDirAll ==
    [][ret'.op = "create_dir_all" /\ ret.op = "idle" => CreateDirAllAsClaimed]_vars

\* C23 where every entry has its parent: there it holds.
C23_OnTrees ==
    [][ret'.op = "create_dir_all" /\ ret.op = "idle" /\ IsTree(files)
          => CreateDirAllAsClaimed]_vars

\* create_dir_all has succeeded on a directory whose parent is not there
C23_OrphanTolerated ==
    /\ ret.op = "create_dir_all" /\ ret.res = "Ok"
    /\ ret.path # Root /\ Root \in DOMAIN files /\ Parent(ret.path) \notin DOMAIN files

\* create_dir_all has made three directories at once
C23_MadeChain ==
    /\ ret.op = "create_dir_all" /\ ret.res = "Ok" /\ Len(ret.path) = 3
    /\ \A q \in Prefixes(ret.path) : IsDirAt(St, q) /\ NodeMode(St, q) = DefaultMode

\* create_dir_all has succeeded on a directory without write bits
C23_ToleratedReadOnly ==
    /\ ret.op = "create_dir_all" /\ ret.res = "Ok"
    /\ ret.path # Root /\ ~CanWrite(NodeMode(St, ret.path))

\* create_dir_all has stopped at a file above the path
C23_StoppedAtFile ==
    /\ ret.op = "create_dir_all" /\ ret.res = "Other"
    /\ IsFileAt(St, Parent(ret.path))

\* create_dir_all has stopped under a directory without write bits, one
\* level below which the path lies two levels
C23_StoppedUnderReadOnly ==
    /\ ret.op = "create_dir_all" /\ ret.res = "PermissionDenied"
    /\ Len(ret.path) = 3 /\ ~IsPresent(St, Parent(ret.path))

\* C24: remove_dir(P) never removes more than one entry: it fails with
\* NotFound if P is absent, with Other if P is a file, and with Other if
\* any entry lies under P at any depth; whenever it fails the tree is as
\* before, and when it succeeds only P is gone.
C24_RemoveDirOnlyEmpty ==
    [][ret'.op = "remove_dir" /\ ret.op = "idle" =>
          LET p == ret'.path
          IN  /\ ret'.res = (IF ~IsPresent(St, p) THEN "NotFound"
                              ELSE IF IsFileAt(St, p) THEN "Other"
                              ELSE IF \E q \in DOMAIN files : Under(q, p) THEN "Other"
                              ELSE "Ok")
              /\ Cardinality(DOMAIN Before \ DOMAIN After) <= 1
              /\ ret'.res # "Ok" => After = Before
              /\ ret'.res = "Ok" =>
                    After = [q \in DOMAIN Before \ {p} |-> Before[q]]]_vars

\* remove_dir has been refused on a directory with an entry two levels below
C24_RefusedWithGrandchild ==
    /\ ret.op = "remove_dir" /\ ret.res = "Other" /\ IsDirAt(St, ret.path)
    /\ \E q \in DOMAIN files : Under(q, ret.path) /\ Len(q) = Len(ret.path) + 2

\* remove_dir has removed a directory and left its sibling
C24_RemovedOne ==
    /\ ret.op = "remove_dir" /\ ret.res = "Ok" /\ Len(ret.path) = 1
    /\ \E q \in DOMAIN files : Len(q) = 1

----------------------------------------------------------------------------
(* copy_file *)

\* The step is a copy_file that succeeded
Copied == ret.op = "idle" /\ ret'.op = "copy_file" /\ ret'.res = "Ok"

\* Rewriting the file at p after the step leaves the entry at q as it is
WriteNotSeenAt(p, q) ==
    \A buf \in Bufs \cup {<<>>} :
        LET st == SetContents(St', p, buf)
        IN  Entry(st.files, st.cells, q) = After[q]

\* What a successful copy_file(from, to) leaves: to holds the bytes of from,
\* from and every other entry are as before, and the two are separate files
CopyMade(from, to) ==
    /\ from \in DOMAIN Before /\ Before[from].kind = "File"
    /\ to \in DOMAIN Before => Before[to].kind = "File" /\ CanWrite(Before[to].mode)
    /\ DOMAIN After = DOMAIN Before \cup {to}
    /\ After[to].kind = "File"
    /\ After[to].contents = Before[from].contents
    /\ After[to].mode = IF to \in DOMAIN Before THEN Before[to].mode ELSE DefaultMode
    /\ After[from] = Before[from]
    /\ \A q \in DOMAIN Before \ {to} : After[q] = Before[q]
    /\ from # to =>
          /\ files'[from].id # files'[to].id
          /\ WriteNotSeenAt(to, from)
          /\ WriteNotSeenAt(from, to)

\* C25: after a successful copy_file(from, to), reading to yields exactly
\* the bytes from held at the time of the copy, whether to was absent or an
\* existing writable file; from keeps its contents and mode; and a later
\* write to either file is not seen when reading the other.
C25_CopyFile ==
    [][Copied =>
         /\ CopyMade(ret'.path, ret'.to)
         /\ ReadToEnd(St', ret'.to) =
               [res |-> "Ok", data |-> Before[ret'.path].contents]]_vars

\* C25 as the code has it: to holds the bytes of from, and reading to yields
\* them when the mode of to has a read bit; an existing to keeps its mode, so
\* reading a to without read bits fails with PermissionDenied.
C25_CopyFileReadable ==
    [][Copied =>
         /\ CopyMade(ret'.path, ret'.to)
         /\ ReadToEnd(St', ret'.to) =
               IF CanRead(After[ret'.to].mode)
               THEN [res |-> "Ok", data |-> Before[ret'.path].contents]
               ELSE [res |-> "PermissionDenied", data |-> <<>>]]_vars

\* Bytes were copied to another name, which can be read
C25_CopiedBytes ==
    /\ ret.op = "copy_file" /\ ret.res = "Ok" /\ ret.path # ret.to
    /\ ReadToEnd(St, ret.to) = [res |-> "Ok", data |-> <<1>>]
    /\ NodeMode(St, ret.to) = DefaultMode

\* Bytes were copied over a file that has write bits and no read bit
C25_CopiedOverWriteOnly ==
    /\ ret.op = "copy_file" /\ ret.res = "Ok" /\ ret.path # ret.to
    /\ NodeMode(St, ret.to) = WriteBits
    /\ cells[files[ret.to].id].contents = <<1>>

\* The error of copy_file(from, to) before the step, "Ok" if there is none:
\* the source is looked at first, the destination only if it can be read
CopyRefusal(from, to) ==
    IF from \notin DOMAIN Before THEN "NotFound"
    ELSE IF Before[from].kind = "Dir" THEN "InvalidInput"
    ELSE IF BitAnd(Before[from].mode, ReadBits) = 0 THEN "PermissionDenied"
    ELSE IF to \in DOMAIN Before
         THEN IF Before[to].kind = "Dir" THEN "Other"
              ELSE IF BitAnd(Before[to].mode, WriteBits) = 0 THEN "PermissionDenied"
              ELSE "Ok"
    ELSE IF Parent(to) \notin DOMAIN Before THEN "NotFound"
    ELSE IF Before[Parent(to)].kind = "File" THEN "Other"
    ELSE IF BitAnd(Before[Parent(to)].mode, WriteBits) = 0 THEN "PermissionDenied"
    ELSE "Ok"

\* C26: copy_file(from, to) fails with NotFound if from is absent (and to is
\* not created), InvalidInput if from is a directory, PermissionDenied if
\* from has no read bit or the existing destination file has no write bit,
\* and Other if to is a directory; a copy_file that fails changes nothing.
C26_CopyFileRefusals ==
    [][ret.op = "idle" /\ ret'.op = "copy_file" =>
         /\ ret'.res = CopyRefusal(ret'.path, ret'.to)
         /\ ret'.res # "Ok" => After = Before /\ cells' = cells /\ files' = files]_vars

\* A copy was refused because the destination file is read-only; the source
\* holds bytes that did not arrive
C26_RefusedOnReadOnlyDestination ==
    /\ ret.op = "copy_file" /\ ret.res = "PermissionDenied"
    /\ IsFileAt(St, ret.path) /\ NodeMode(St, ret.path) = DefaultMode
    /\ cells[files[ret.path].id].contents = <<1>>
    /\ IsFileAt(St, ret.to) /\ NodeMode(St, ret.to) = ReadBits
    /\ cells[files[ret.to].id].contents = <<>>

\* A copy of a directory was refused
C26_RefusedDirSource ==
    /\ ret.op = "copy_file" /\ ret.res = "InvalidInput"
    /\ IsDirAt(St, ret.path)

\* A copy onto a directory was refused
C26_RefusedDirDestination ==
    /\ ret.op = "copy_file" /\ ret.res = "Other"
    /\ IsFileAt(St, ret.path) /\ IsDirAt(St, ret.to)

\* A copy of an absent file was refused and made no destination
C26_RefusedAbsentSource ==
    /\ ret.op = "copy_file" /\ ret.res = "NotFound"
    /\ ~IsPresent(St, ret.path) /\ ~IsPresent(St, ret.to)
    /\ IsPresent(St, Parent(ret.to))

\* A copy of a file without read bits was refused
C26_RefusedUnreadableSource ==
    /\ ret.op = "copy_file" /\ ret.res = "PermissionDenied"
    /\ IsFileAt(St, ret.path) /\ NodeMode(St, ret.path) = WriteBits

----------------------------------------------------------------------------
(* Modes *)

\* Bit i of a mode, counted from the lowest
Bit(mode, i) == (mode \div (2 ^ i)) % 2

\* The places of the write bits 0o222 in a mode of nine bits
WriteBitPlaces == {1, 4, 7}
ModeBitPlaces == 0..8

\* C27: setting an entry read-only clears exactly the write bits 0o222 of
\* its mode and clearing read-only sets exactly those bits, all other bits
\* staying as they were; readonly(P) is true exactly when the mode of P has
\* no bit of 0o222; readonly, set_readonly, mode and set_mode on an absent
\* path fail with NotFound.
C27_ReadonlyIsWriteBits ==
    [][/\ ret.op = "idle" /\ ret'.op \in {"readonly", "set_readonly", "mode", "set_permissions"}
          => ret'.res = IF ret'.path \in DOMAIN Before THEN "Ok" ELSE "NotFound"
       /\ ret.op = "idle" /\ ret'.op \in {"readonly", "set_readonly", "mode", "set_permissions"}
          /\ ret'.res # "Ok" => After = Before
       /\ ret.op = "idle" /\ ret'.op = "set_readonly" /\ ret'.res = "Ok" =>
            /\ DOMAIN After = DOMAIN Before
            /\ \A q \in DOMAIN Before \ {ret'.path} : After[q] = Before[q]
            /\ After[ret'.path].kind = Before[ret'.path].kind
            /\ After[ret'.path].contents = Before[ret'.path].contents
            /\ \A i \in ModeBitPlaces :
                  Bit(After[ret'.path].mode, i) =
                     IF i \in WriteBitPlaces
                     THEN (IF ret'.arg[1] THEN 0 ELSE 1)
                     ELSE Bit(Before[ret'.path].mode, i)
            /\ Before[ret'.path].mode = 384 /\ ret'.arg[1] => After[ret'.path].mode = 256
       /\ ret.op = "idle" /\ ret'.op = "readonly" /\ ret'.res = "Ok" =>
            /\ ret'.arg[1] = (\A i \in WriteBitPlaces : Bit(Before[ret'.path].mode, i) = 0)
            /\ After = Before
       /\ ret.op = "idle" /\ ret'.op = "mode" /\ ret'.res = "Ok" =>
            /\ ret'.arg[1] = Before[ret'.path].mode
            /\ After = Before]_vars

\* Mode 0o600 was made read-only and is 0o400
C27_OwnerModeMadeReadonly ==
    /\ ret.op = "set_readonly" /\ ret.res = "Ok" /\ ret.arg = <<TRUE>>
    /\ NodeMode(St, ret.path) = 256

\* Read-only was cleared on a mode without any bit: it is 0o222
C27_ClearedOnNoBits ==
    /\ ret.op = "set_readonly" /\ ret.res = "Ok" /\ ret.arg = <<FALSE>>
    /\ NodeMode(St, ret.path) = WriteBits

\* readonly said false of a mode with the owner's write bit only
C27_WritableByOneBit ==
    /\ ret.op = "readonly" /\ ret.res = "Ok" /\ ret.arg = <<FALSE>>
    /\ NodeMode(St, ret.path) = 128

\* set_readonly was refused on an absent path
C27_AbsentRefused ==
    /\ ret.op = "set_readonly" /\ ret.res = "NotFound"
    /\ ~IsPresent(St, ret.path)

\* The places of the read bits 0o444 in a mode of nine bits
ReadBitPlaces == {2, 5, 8}

\* The step opens for reading: open, or open_with_options with read alone
OpensForReading ==
    /\ ret.op = "idle"
    /\ \/ ret'.op = "open"
       \/ ret'.op = "open_with_options" /\ FlagsSet = {"read"}

\* The step opens for writing in a way that takes an existing file: create,
\* overwrite, or open_with_options with write, truncate+write or
\* create+truncate+write
OpensForWriting ==
    /\ ret.op = "idle"
    /\ \/ ret'.op \in {"create", "overwrite"}
       \/ /\ ret'.op = "open_with_options"
          /\ FlagsSet \in {{"write"}, {"truncate", "write"}, {"create", "truncate", "write"}}

\* C28: on a file that is there, open for reading succeeds only if the
\* mode has a bit of 0o444 and fails with PermissionDenied otherwise; every
\* write-mode open or create succeeds only if the mode has a bit of 0o222
\* and fails with PermissionDenied otherwise; the one check does not look at
\* the bits of the other.
C28_ModeGatesOpening ==
    [][LET p == ret'.path
       IN  IsFileAt(St, p) =>
             /\ OpensForReading =>
                   ret'.res = IF \E i \in ReadBitPlaces : Bit(Before[p].mode, i) = 1
                              THEN "Ok" ELSE "PermissionDenied"
             /\ OpensForWriting =>
                   ret'.res = IF \E i \in WriteBitPlaces : Bit(Before[p].mode, i) = 1
                              THEN "Ok" ELSE "PermissionDenied"
             /\ /\ ret.op = "idle"
                /\ ret'.op \in {"open", "create", "overwrite", "open_with_options"}
                /\ ret'.res = "Ok"
                => \E i \in (IF OpensForReading THEN ReadBitPlaces ELSE WriteBitPlaces) :
                      Bit(Before[p].mode, i) = 1
             /\ (OpensForReading \/ OpensForWriting) /\ ret'.res # "Ok" =>
                   ret'.h = 0 /\ After = Before /\ handles' = handles
             /\ (OpensForReading \/ OpensForWriting) /\ ret'.h # 0 =>
                   /\ handles'[ret'.h].access = IF OpensForReading THEN "Read" ELSE "Write"
                   /\ handles'[ret'.h].id = files'[p].id
                   /\ After[p].mode = Before[p].mode]_vars

\* A file of mode 0o200 with bytes was opened for writing
C28_WriteOnlyOpenedForWriting ==
    /\ ret.op = "open_with_options" /\ ret.res = "Ok" /\ ret.h # 0
    /\ ret.arg[1] = Options({"write"})
    /\ NodeMode(St, ret.path) = 128
    /\ cells[files[ret.path].id].contents = <<1>>

\* A file of mode 0o200 was refused for reading
C28_WriteOnlyRefusedForReading ==
    /\ ret.op = "open" /\ ret.res = "PermissionDenied"
    /\ IsFileAt(St, ret.path) /\ NodeMode(St, ret.path) = 128

\* A file of mode 0o444 was refused by create and kept its bytes
C28_ReadOnlyRefusedForCreate ==
    /\ ret.op = "create" /\ ret.res = "PermissionDenied"
    /\ IsFileAt(St, ret.path) /\ NodeMode(St, ret.path) = ReadBits
    /\ cells[files[ret.path].id].contents = <<1>>

----------------------------------------------------------------------------
(* Read-only directories *)

\* d is a directory before the step, with or without write bits
WritableDir(d) ==
    /\ d \in DOMAIN Before /\ Before[d].kind = "Dir"
    /\ \E i \in WriteBitPlaces : Bit(Before[d].mode, i) = 1

ReadOnlyDir(d) ==
    /\ d \in DOMAIN Before /\ Before[d].kind = "Dir"
    /\ \A i \in WriteBitPlaces : Bit(Before[d].mode, i) = 0

\* The immediate children of d in a tree, each with what it is
ChildrenIn(tree, d) ==
    [q \in {q \in DOMAIN tree : q # Root /\ Parent(q) = d} |-> tree[q]]

\* The step creates an absent entry: create_dir or create
CreatesEntry ==
    /\ ret.op = "idle" /\ ret'.op \in {"create_dir", "create"}
    /\ ret'.path \notin DOMAIN Before /\ ret'.path # Root

\* The step removes a file, or a directory that has nothing in it
RemovesEntry ==
    /\ ret.op = "idle" /\ ret'.path \in DOMAIN Before /\ ret'.path # Root
    /\ \/ ret'.op = "remove_file" /\ Before[ret'.path].kind = "File"
       \/ /\ ret'.op = "remove_dir" /\ Before[ret'.path].kind = "Dir"
          /\ ~\E q \in DOMAIN Before : Under(q, ret'.path)

\* The step renames a file to a name that is free in another directory
RenamesEntry ==
    /\ ret.op = "idle" /\ ret'.op = "rename"
    /\ ret'.path \in DOMAIN Before /\ Before[ret'.path].kind = "File"
    /\ ret'.to \notin DOMAIN Before /\ ret'.to # Root
    /\ Parent(ret'.to) # Parent(ret'.path)
    /\ Parent(ret'.to) \in DOMAIN Before /\ Before[Parent(ret'.to)].kind = "Dir"

\* The directories whose children the step is to change
DirsOfStep ==
    IF CreatesEntry \/ RemovesEntry THEN {Parent(ret'.path)}
    ELSE IF RenamesEntry THEN {Parent(ret'.path), Parent(ret'.to)}
    ELSE {}

\* C29: while the mode of a directory has no write bit its immediate
\* children cannot change: creating a file or directory in it, removing a
\* file or an empty directory from it, and renaming an entry into or out of
\* it fail with PermissionDenied and leave its children as they were; when
\* the directories have their write bits the same operations succeed.
C29_ReadOnlyDirKeepsChildren ==
    [][/\ \A d \in DirsOfStep :
             ReadOnlyDir(d) =>
                /\ ret'.res = "PermissionDenied"
                /\ ChildrenIn(After, d) = ChildrenIn(Before, d)
       /\ DirsOfStep # {} /\ (\A d \in DirsOfStep : WritableDir(d)) => ret'.res = "Ok"]_vars

\* What the code keeps of C29: nothing is created in a read-only directory,
\* by create_dir, create or rename into it (a rename of or onto the
\* directory itself aside), and the refusal is PermissionDenied; with the
\* write bits the creation succeeds.
C29_NothingAddedToReadOnlyDir ==
    [][/\ ret.op = "idle" /\ ret'.op \in {"create_dir", "create", "rename", "remove_file", "remove_dir"} =>
            \A d \in DOMAIN Before :
               /\ ReadOnlyDir(d) /\ d \in DOMAIN After
               /\ ret'.op = "rename" => ~StartsWith(d, ret'.path) /\ ~StartsWith(d, ret'.to)
               => DOMAIN ChildrenIn(After, d) \subseteq DOMAIN ChildrenIn(Before, d)
       /\ CreatesEntry /\ ReadOnlyDir(Parent(ret'.path)) =>
            ret'.res = "PermissionDenied" /\ After = Before
       /\ CreatesEntry /\ WritableDir(Parent(ret'.path)) => ret'.res = "Ok"
       /\ RenamesEntry /\ ReadOnlyDir(Parent(ret'.to)) => ret'.res = "PermissionDenied"]_vars

\* A file was removed from a directory that has no write bit
C29_RemovedFromReadOnlyDir ==
    /\ ret.op = "remove_file" /\ ret.res = "Ok"
    /\ ret.path # Root /\ IsDirAt(St, Parent(ret.path))
    /\ ~CanWrite(NodeMode(St, Parent(ret.path)))
    /\ ~IsPresent(St, ret.path)

\* A creation in a directory that has no write bit was refused
C29_CreationRefused ==
    /\ ret.op = "create" /\ ret.res = "PermissionDenied"
    /\ ret.path # Root /\ ~IsPresent(St, ret.path)
    /\ IsDirAt(St, Parent(ret.path)) /\ ~CanWrite(NodeMode(St, Parent(ret.path)))

----------------------------------------------------------------------------
(* Handles after a change of mode *)

\* The step is a call on a handle
HandleCall == ret.op = "idle" /\ ret'.op \in {"read", "write", "seek", "set_len"}

\* C30: permission and existence are checked only when a handle is made:
\* whatever the mode of the file or of its parent directory has become
\* since, and whether the file is still there, a read, write, seek or
\* set_len on the handle fails only for what the handle and the call are: a
\* read succeeds on every read handle, a write and a set_len on every write
\* handle, a seek to a target of the range on every handle.
C30_HandleOutlivesMode ==
    [][HandleCall =>
         /\ ret'.res \notin {"PermissionDenied", "NotFound"}
         /\ ret'.op = "read" => ret'.res = IF Hd.access = "Read" THEN "Ok" ELSE "Other"
         /\ ret'.op \in {"write", "set_len"} =>
               ret'.res = IF Hd.access = "Write" THEN "Ok" ELSE "Other"
         /\ ret'.op = "seek" /\ ret'.arg[2] \in I64 /\ SeekGoal \in I64 /\ SeekGoal >= 0 =>
               ret'.res = "Ok"
         /\ ret'.op = "write" /\ ret'.res = "Ok" =>
               SubSeq(HdContentsAfter, Hd.pos + 1, Hd.pos + Len(ret'.data)) = ret'.data]_vars

\* Bytes were written through a handle to a file whose mode is now 0o000
C30_WroteAfterModeCleared ==
    /\ ret.op = "write" /\ ret.res = "Ok"
    /\ IsFileAt(St, <<NameSeq[1]>>) /\ files[<<NameSeq[1]>>].id = handles[ret.h].id
    /\ NodeMode(St, <<NameSeq[1]>>) = 0
    /\ cells[handles[ret.h].id].contents = <<1>>

\* Bytes were read through a handle from a file whose mode is now 0o000
C30_ReadAfterModeCleared ==
    /\ ret.op = "read" /\ ret.res = "Ok" /\ ret.data = <<1>>
    /\ IsFileAt(St, <<NameSeq[1]>>) /\ files[<<NameSeq[1]>>].id = handles[ret.h].id
    /\ NodeMode(St, <<NameSeq[1]>>) = 0

\* A file was resized through a handle while its directory is read-only
C30_ResizedUnderReadOnlyDir ==
    /\ ret.op = "set_len" /\ ret.res = "Ok" /\ ret.arg = <<2>>
    /\ IsFileAt(St, <<NameSeq[1]>>) /\ files[<<NameSeq[1]>>].id = handles[ret.h].id
    /\ NodeMode(St, Root) = ReadBits
    /\ Len(cells[handles[ret.h].id].contents) = 2

\* A seek succeeded on a write handle to a file that is now read-only
C30_SoughtOnReadOnlyFile ==
    /\ ret.op = "seek" /\ ret.res = "Ok" /\ handles[ret.h].access = "Write"
    /\ IsFileAt(St, <<NameSeq[1]>>) /\ files[<<NameSeq[1]>>].id = handles[ret.h].id
    /\ NodeMode(St, <<NameSeq[1]>>) = ReadBits

----------------------------------------------------------------------------
(* canonicalize *)

\* The step is a canonicalize; the path it was given, and the path returned
CanonStep == ret.op = "idle" /\ ret'.op = "canonicalize"
Asked == ret'.arg[1]
Answer == ret'.arg[2]

Returns(p) == ret'.res = "Ok" /\ Len(ret'.arg) = 2 /\ Answer = p

\* What C31 says of the canonicalize of this step
CanonicalizeAsClaimed ==
    /\ Asked = AbsPath(<<>>) => Returns(Root)
    /\ Asked = EmptyPath => ret'.res = "NotFound"
    /\ \A d \in DOMAIN Before \ {Root} :
          /\ Before[d].kind = "Dir"
          /\ Parent(d) \in DOMAIN Before
          /\ Asked = AbsPath(Append(d, DotDot))
          => Returns(Parent(d))
    /\ /\ Asked.abs /\ Asked.comps # <<>>
       /\ \A i \in DOMAIN Asked.comps : Asked.comps[i] = DotDot
       => Returns(Root)
    /\ ret'.res = "Ok" =>
          /\ Len(ret'.arg) = 2
          /\ Answer \in DOMAIN Before
          /\ \A i \in DOMAIN Answer : Answer[i] \in Names
          /\ CanonicalizeReg(St, cwd, AbsPath(Answer)) = [res |-> "Ok", path |-> <<Answer>>]

\* C31: canonicalize of the root returns the root; of the empty path it
\* fails with NotFound in every state; for an existing directory D with
\* parent P, canonicalize(D/..) returns P; ".." at the root stays at the
\* root; every successful result is an absolute path without ".." that
\* names an existing entry, and canonicalizing it again returns it.
C31_Canonicalize ==
    [][CanonStep => CanonicalizeAsClaimed]_vars

\* C31 where the root is a directory and every entry has its parent: there
\* it holds.
C31_OnTrees ==
    [][CanonStep /\ IsDirAt(St, Root) /\ IsTree(files) => CanonicalizeAsClaimed]_vars

\* canonicalize of the root has found no root
C31_RootNotFound ==
    /\ ret.op = "canonicalize" /\ ret.res = "NotFound"
    /\ ret.arg[1] = AbsPath(<<>>)

\* canonicalize of D/D/.. has returned D
C31_ReturnedParent ==
    /\ ret.op = "canonicalize" /\ ret.res = "Ok"
    /\ ret.arg = <<AbsPath(<<NameSeq[1], NameSeq[1], DotDot>>), <<NameSeq[1]>>>>

\* The components of the absolute path the step was asked for, "." left out
AskedComps ==
    SelectSeq(IF Asked.abs THEN Asked.comps ELSE cwd \o Asked.comps,
              LAMBDA x : x # Dot)

\* The path accumulated after the first k of these components
RECURSIVE SaneAfter(_)
SaneAfter(k) ==
    IF k = 0 THEN Root
    ELSE LET s == SaneAfter(k - 1)
         IN  IF AskedComps[k] # DotDot THEN s \o <<AskedComps[k]>>
             ELSE IF Len(s) = 0 THEN s ELSE SubSeq(s, 1, Len(s) - 1)

\* The steps before the last at which the accumulated path is no directory
BadSteps ==
    {k \in 0..(Len(AskedComps) - 1) :
        ~(SaneAfter(k) \in DOMAIN Before /\ Before[SaneAfter(k)].kind = "Dir")}

FirstBadStep == CHOOSE k \in BadSteps : \A j \in BadSteps : k <= j

\* The result of the canonicalize of this step, a file on the way being
\* refused with the kind given
CanonicalizeChecks(kindAtFile) ==
    Asked # EmptyPath =>
       IF BadSteps # {}
       THEN ret'.res = IF SaneAfter(FirstBadStep) \in DOMAIN Before
                       THEN kindAtFile ELSE "NotFound"
       ELSE IF SaneAfter(Len(AskedComps)) \notin DOMAIN Before
            THEN ret'.res = "NotFound"
            ELSE Returns(SaneAfter(Len(AskedComps)))

C32_RefusedAtMissing ==
    /\ ret.op = "canonicalize" /\ ret.res = "NotFound"
    /\ ret.arg = <<AbsPath(<<NameSeq[2], DotDot, NameSeq[1]>>)>>
    /\ IsPresent(St, <<NameSeq[1]>>) /\ ~IsPresent(St, <<NameSeq[2]>>)
    /\ IsDirAt(St, Root)

\* A file was accepted as the final entry
C32_AcceptedFile ==
    /\ ret.op = "canonicalize" /\ ret.res = "Ok"
    /\ Len(ret.arg) = 2 /\ IsFileAt(St, ret.arg[2]) /\ Len(ret.arg[2]) = 2

----------------------------------------------------------------------------
(* read_dir *)

\* The step is a read_dir; the path it was given, written and absolute
ReadDirStep == ret.op = "idle" /\ ret'.op = "read_dir"
Listed == ret'.arg[1]
ListedAbs == IF Listed.abs THEN Listed.comps ELSE cwd \o Listed.comps

\* The entries of the registry whose parent path is p
ChildrenOf(p) == {q \in DOMAIN Before : q # Root /\ SubSeq(q, 1, Len(q) - 1) = p}

\* C33: read_dir(P) on a directory returns exactly one entry per registry
\* entry whose parent path is P, none for P itself or for deeper
\* descendants, the path of each being P joined with its file name; it
\* fails with NotFound if P is absent and with Other if P is a file; the
\* returned sequence is a snapshot that later changes do not alter.
C33_ReadDirListsChildren ==
    [][/\ ReadDirStep =>
            /\ ret'.res = IF ListedAbs \notin DOMAIN Before THEN "NotFound"
                          ELSE IF Before[ListedAbs].kind = "File" THEN "Other"
                          ELSE "Ok"
            /\ After = Before
            /\ ret'.res = "Ok" =>
                  /\ listing'.held
                  /\ Len(listing'.entries) = Cardinality(ChildrenOf(ListedAbs))
                  /\ \A q \in ChildrenOf(ListedAbs) :
                        Cardinality({i \in DOMAIN listing'.entries :
                                       EntryPath(listing'.entries[i]) =
                                          [abs |-> Listed.abs,
                                           comps |-> Listed.comps \o <<q[Len(q)]>>]}) = 1
                  /\ \A i \in DOMAIN listing'.entries :
                        \E q \in ChildrenOf(ListedAbs) :
                           /\ listing'.entries[i].file_name = q[Len(q)]
                           /\ listing'.entries[i].parent = Listed
       /\ ~(ReadDirStep /\ ret'.res = "Ok") => listing' = listing]_vars

\* A listing of two entries was returned for a directory that has an entry
\* two levels below as well
C33_ListedTwo ==
    /\ ret.op = "read_dir" /\ ret.res = "Ok" /\ ret.arg = <<AbsPath(Root)>>
    /\ Len(listing.entries) = 2
    /\ \E q \in DOMAIN files : Len(q) = 2

\* The caller holds a listing with an entry that has since been removed
C33_ListingOutlived ==
    /\ listing.held /\ ret.op = "remove_file" /\ ret.res = "Ok"
    /\ \E i \in DOMAIN listing.entries :
          /\ listing.entries[i].parent.abs
          /\ EntryPath(listing.entries[i]).comps = ret.path

\* A directory was listed through a relative path
C33_ListedRelative ==
    /\ ret.op = "read_dir" /\ ret.res = "Ok" /\ ret.arg = <<RelPath(<<NameSeq[1]>>)>>
    /\ Len(listing.entries) = 1
    /\ EntryPath(listing.entries[1]) = RelPath(<<NameSeq[1], NameSeq[2]>>)

----------------------------------------------------------------------------
(* The working directory *)

\* The step is a set_current_dir; the absolute path it names
SetCwdStep == ret.op = "idle" /\ ret'.op = "set_current_dir"
CwdAsked ==
    LET raw == ret'.arg[1]
        base == IF cwd \in DOMAIN Before /\ Before[cwd].kind = "Dir" THEN cwd ELSE Root
    IN  IF raw.abs THEN raw.comps ELSE base \o raw.comps

OtherOps == {"other.create_dir", "other.set_current_dir"}

\* C34: the working directory is changed only by a successful
\* set_current_dir: set_current_dir(P) fails with NotFound if P is absent
\* and with Other if P is a file, leaving the working directory as it was;
\* no other operation changes the stored working directory; and each
\* FakeFileSystem has a working directory of its own.
C34_OnlySetCurrentDirMovesCwd ==
    [][/\ SetCwdStep =>
            /\ ret'.res = IF CwdAsked \notin DOMAIN Before THEN "NotFound"
                          ELSE IF Before[CwdAsked].kind = "File" THEN "Other"
                          ELSE "Ok"
            /\ cwd' = IF ret'.res = "Ok" THEN CwdAsked ELSE cwd
            /\ After = Before
       /\ ~SetCwdStep => cwd' = cwd
       /\ ret'.op \notin OtherOps => other' = other
       /\ ret'.op \in OtherOps => cwd' = cwd /\ files' = files /\ cells' = cells
       /\ ret.op = "idle" /\ ret'.op = "other.set_current_dir" =>
            other'.cwd = IF ret'.res = "Ok" THEN ret'.path ELSE other.cwd]_vars

\* Two file systems have different working directories, the one just set
C34_TwoWorkingDirs ==
    /\ ret.op = "set_current_dir" /\ ret.res = "Ok"
    /\ cwd = <<NameSeq[1], NameSeq[1]>> /\ other.cwd = <<NameSeq[1]>>

\* set_current_dir was refused on a file and left a working directory that
\* is not the root
C34_RefusedOnFile ==
    /\ ret.op = "set_current_dir" /\ ret.res = "Other"
    /\ ret.arg = <<AbsPath(<<NameSeq[2]>>)>> /\ IsFileAt(St, <<NameSeq[2]>>)
    /\ cwd = <<NameSeq[1]>>

\* A rename of the working directory has left the stored path as it was
C34_KeptOverRename ==
    /\ ret.op = "rename" /\ ret.res = "Ok" /\ ret.path = cwd /\ cwd # Root

\* C40: in every reachable state the stored working directory names an
\* existing directory of the registry, so that current_dir() succeeds and
\* relative paths resolve against it: no sequence of remove_dir,
\* remove_dir_all or rename leaves it naming an absent path or a file.
C40_CwdIsDirectory ==
    /\ cwd \in DOMAIN files /\ files[cwd].kind = "Dir"
    /\ CurrentDirReg(St, cwd).res = "Ok"

\* What does hold: a successful set_current_dir leaves the working directory
\* naming a directory, and current_dir answers by what the stored path names
\* at the time of the call
C40_DirectoryWhenSet ==
    [][/\ SetCwdStep /\ ret'.res = "Ok" =>
            cwd' \in DOMAIN After /\ After[cwd'].kind = "Dir"
       /\ ret.op = "idle" /\ ret'.op = "current_dir" =>
            ret'.res = IF cwd \notin DOMAIN Before THEN "NotFound"
                       ELSE IF Before[cwd].kind = "File" THEN "Other"
                       ELSE "Ok"]_vars

\* current_dir has failed because the working directory was removed
C40_CurrentDirNotFound ==
    /\ ret.op = "current_dir" /\ ret.res = "NotFound"
    /\ cwd = <<NameSeq[1]>> /\ Root \in DOMAIN files

\* current_dir has failed because the working directory now names a file
C40_CurrentDirAtFile ==
    /\ ret.op = "current_dir" /\ ret.res = "Other" /\ IsFileAt(St, cwd)

----------------------------------------------------------------------------
(* A rename of a path onto itself *)

SamePaths == {Root} \cup IoPaths

NextSame ==
    \/ \E p \in SamePaths : CreateDir(p)
    \/ \E p \in SamePaths, keep \in BOOLEAN : Create(p, keep)
    \/ \E h \in Slots, buf \in Bufs : Write(h, buf)
    \/ \E h \in Slots : DropHandle(h)
    \/ \E p \in SamePaths : SetPermissions(p, ReadBits)
    \/ \E from, to \in SamePaths : Rename(from, to)
    \/ Return

SpecSame == Init /\ [][NextSame]_vars

\* The step is a rename of an existing file or empty directory onto itself
RenameOntoItself ==
    /\ ret.op = "idle" /\ ret'.op = "rename" /\ ret'.path = ret'.to
    /\ ret'.path \in DOMAIN Before
    /\ \/ Before[ret'.path].kind = "File"
       \/ \A q \in DOMAIN Before : StartsWith(q, ret'.path) => q = ret'.path

\* C39: rename(P, P) of an existing file or empty directory never destroys
\* the entry: whether the call succeeds or fails, P exists afterwards with
\* the same kind, contents and mode.
C39_RenameOntoItselfKeeps ==
    [][RenameOntoItself =>
          ret'.path \in DOMAIN After /\ After[ret'.path] = Before[ret'.path]]_vars

\* What the code does: the entry is gone and the call reports NotFound,
\* whatever the mode of the entry and of its parent
C39_RenameOntoItselfRemoves ==
    [][RenameOntoItself =>
          /\ ret'.res = "NotFound"
          /\ After = [q \in DOMAIN Before \ {ret'.path} |-> Before[q]]]_vars

\* A file with bytes, and an empty directory, have been renamed onto themselves
C39_FileOntoItself ==
    /\ ret.op = "rename" /\ ret.path = ret.to /\ ret.res = "NotFound"
    /\ ret.path = <<NameSeq[1]>> /\ ~IsPresent(St, ret.path)
    /\ \E c \in DOMAIN cells : cells[c].contents # <<>>
C39_DirOntoItself ==
    /\ ret.op = "rename" /\ ret.path = ret.to /\ ret.res = "NotFound"
    /\ ret.path = <<NameSeq[2]>> /\ ~IsPresent(St, ret.path) /\ cells = <<>>

----------------------------------------------------------------------------
(* Two handles on one path *)

SharePath == <<NameSeq[1]>>

\* Old bytes and new bytes
ShareBufs == {<<1>>, <<2>>}

NextShare ==
    \/ \E keep \in BOOLEAN : Create(SharePath, keep)
    \/ Open(SharePath)
    \/ RemoveFile(SharePath)
    \/ \E h \in Slots, n \in 1..MaxLen : Read(h, n)
    \/ \E h \in Slots, buf \in ShareBufs : Write(h, buf)
    \/ \E h \in Slots : Seek(h, "Start", 1)
    \/ \E h \in Slots : DropHandle(h)
    \/ Return

SpecShare == InitPair /\ [][NextShare]_vars

\* Handle g holds the cell of the file that p names
SharesEntry(hs, f, g, p) ==
    /\ p \in DOMAIN f /\ f[p].kind = "File"
    /\ hs[g] # Closed /\ hs[g].id = f[p].id

\* The step takes the entry away from p
TakesAway(p) ==
    /\ ret'.op \in {"remove_file", "remove_dir_all", "rename"}
    /\ p \notin DOMAIN files' \/ StartsWith(p, ret'.path)

\* The bytes a write of buf at cursor k leaves of contents c
Overwritten(c, k, buf) ==
    [i \in 1..Max(Len(c), k + Len(buf)) |->
        IF i > k /\ i <= k + Len(buf) THEN buf[i - k]
        ELSE IF i <= Len(c) THEN c[i] ELSE 0]

\* C38: all handles obtained on the same path while the entry is not
\* removed share one content and have cursors of their own: a handle is
\* given the cell of the entry, at cursor 0, and keeps sharing it whatever
\* is done through the path or through other handles; only a call on the
\* handle itself moves its cursor; a later create on the path empties the
\* shared content in place, and a read or write through an earlier handle
\* then acts on the entry's new bytes at the handle's own cursor (a write
\* beyond the new end filling with zeros).
C38_SharedContentOwnCursors ==
    [][/\ \A g \in Slots, p \in DOMAIN files :
            SharesEntry(handles, files, g, p) /\ ~TakesAway(p) /\ handles'[g] # Closed
                => SharesEntry(handles', files', g, p)
       /\ ret.op = "idle" /\ ret'.op \in {"create", "open"} /\ ret'.res = "Ok" /\ ret'.h > 0
            => SharesEntry(handles', files', ret'.h, ret'.path) /\ HdAfter.pos = 0
       /\ \A g \in Slots :
            handles[g] # Closed /\ handles'[g] # Closed /\ ~(HandleCall /\ ret'.h = g)
                => handles'[g].pos = handles[g].pos /\ handles'[g].access = handles[g].access
       /\ ret.op = "idle" /\ ret'.op = "create" /\ ret'.res = "Ok"
            => After[ret'.path].contents = <<>>
       /\ ret.op = "idle" /\ ret'.op = "read" /\ ret'.res = "Ok"
            => \A p \in DOMAIN files : SharesEntry(handles, files, ret'.h, p) =>
                  /\ ret'.data = SubSeq(Before[p].contents, Hd.pos + 1,
                                        Min(Len(Before[p].contents), Hd.pos + ret'.arg[1]))
                  /\ HdAfter.pos = Hd.pos + Len(ret'.data)
       /\ ret.op = "idle" /\ ret'.op = "write" /\ ret'.res = "Ok"
            => \A p \in DOMAIN files : SharesEntry(handles, files, ret'.h, p) =>
                  /\ After[p].contents = Overwritten(Before[p].contents, Hd.pos, ret'.data)
                  /\ HdAfter.pos = Hd.pos + Len(ret'.data)]_vars

\* The earlier reader, at cursor 1, has read the second of the new bytes
\* that the later writer left
C38_ReaderSawNewBytes ==
    /\ ret.op = "read" /\ ret.h = 1 /\ ret.data = <<2>>
    /\ handles[1].access = "Read" /\ handles[1].pos = 2
    /\ handles[2].access = "Write" /\ handles[2].pos = 2
    /\ SharesEntry(handles, files, 1, SharePath) /\ SharesEntry(handles, files, 2, SharePath)

\* The earlier writer, at cursor 1, has written into the content that a
\* later create emptied: a zero, then its byte
C38_WriterZeroFilled ==
    /\ ret.op = "write" /\ ret.h = 1 /\ handles[1].pos = 2
    /\ handles[2].access = "Write" /\ handles[2].pos = 0
    /\ SharesEntry(handles, files, 1, SharePath) /\ SharesEntry(handles, files, 2, SharePath)
    /\ cells[handles[1].id].contents = <<0, 2>>

\* Two readers of one content stand at different cursors
C38_CursorsApart ==
    /\ handles[1].access = "Read" /\ handles[2].access = "Read"
    /\ SharesEntry(handles, files, 1, SharePath) /\ SharesEntry(handles, files, 2, SharePath)
    /\ handles[1].pos = 0 /\ handles[2].pos = 2 /\ ret.op = "read" /\ ret.h = 2

----------------------------------------------------------------------------
(* Threads.  Two threads share one FakeFileSystem and each holds a handle   *)
(* on one file.  A call is no longer one step: a facade call takes the      *)
(* registry mutex, runs its loop one map operation at a time and returns,   *)
(* dropping the guard; a handle call takes the mutex of the contents cell,  *)
(* copies one byte at a time and returns.  A mutex taken and released       *)
(* within one expression (every SharedMode call, the assignment of          *)
(* write_file) is one step that waits for the mutex to be free.             *)

RegistryLock == <<"registry", 0>>
ContentsLock(id) == <<"contents", id>>

\* No thread owns the guard of the mutex
Free(lock) == \A u \in Threads : lock \notin thr[u].holds

\* The thread goes on in its call; the call is over but for the return
GoOn(t, r) == thr' = [thr EXCEPT ![t] = r]
Finish(t, res) == thr' = [thr EXCEPT ![t].pc = "return", ![t].res = res, ![t].todo = <<>>]

\* A facade call begins: the next thing is registry.lock()
Call(t, op, path, to) ==
    /\ thr[t].pc = "idle" /\ Len(thr[t].did) < MaxOps
    /\ GoOn(t, [IdleThread EXCEPT !.pc = "registry", !.op = op, !.path = path,
                                  !.to = to, !.did = thr[t].did])
    /\ UNCHANGED <<files, cwd, cells, handles, ret, meta, listing, other>>

\* registry.lock() that does not wait
LockRegistryUnguarded(t) ==
    /\ thr[t].pc = "registry"
    /\ GoOn(t, [thr[t] EXCEPT !.pc = "body", !.holds = @ \cup {RegistryLock},
                              !.seen = <<St>>])
    /\ UNCHANGED <<files, cwd, cells, handles, ret, meta, listing, other>>

\* apply / apply_mut / apply_mut_from_to: self.registry.lock().unwrap()
LockRegistry(t) ==
    /\ thr[t].pc = "registry"
    /\ Free(RegistryLock)
    /\ GoOn(t, [thr[t] EXCEPT !.pc = "body", !.holds = @ \cup {RegistryLock},
                              !.seen = <<St>>])
    /\ UNCHANGED <<files, cwd, cells, handles, ret, meta, listing, other>>

\* remove_dir_all up to its loop: the checks, and the descendants in the
\* order of the map
RemoveDirAllCheck(t) ==
    /\ thr[t].pc = "body" /\ thr[t].op = "remove_dir_all"
    /\ LET p == thr[t].path
       IN  IF GetDirWritable(St, p) # "Ok" THEN Finish(t, GetDirWritable(St, p))
           ELSE IF \E q \in Descendants(St, p) : ~CanRead(NodeMode(St, q))
                THEN Finish(t, "PermissionDenied")
           ELSE \E order \in Orders(Descendants(St, p)) :
                    GoOn(t, [thr[t] EXCEPT !.pc = "remove", !.todo = order \o <<p>>])
    /\ UNCHANGED <<files, cwd, cells, handles, ret, meta, listing, other>>

\* One self.remove(..) of remove_dir_all: a descendant, and last the path
RemoveDirAllStep(t) ==
    /\ thr[t].pc = "remove"
    /\ LET r == Remove(St, Head(thr[t].todo))
       IN  /\ files' = r.files
           /\ IF r.res # "Ok" THEN Finish(t, r.res)
              ELSE IF Len(thr[t].todo) = 1 THEN Finish(t, "Ok")
              ELSE GoOn(t, [thr[t] EXCEPT !.todo = Tail(@)])
    /\ UNCHANGED <<cwd, cells, handles, ret, meta, listing, other>>

\* rename up to the loop of move_dir: of a directory, the removal of an
\* empty destination and rename_path(from, to), then the children in the
\* order of the map; any other rename whole
RenameStart(t) ==
    /\ thr[t].pc = "body" /\ thr[t].op = "rename"
    /\ LET from == thr[t].path
           to == thr[t].to
       IN  IF /\ IsDirAt(St, from)
              /\ ~IsPresent(St, to) \/ (IsDirAt(St, to) /\ Descendants(St, to) = {})
           THEN LET s0 == IF IsPresent(St, to) THEN Remove(St, to) ELSE Result(St, "Ok")
                    r == RenamePath(s0, from, to)
                IN  /\ files' = r.files
                    /\ cells' = cells
                    /\ IF r.res # "Ok" THEN Finish(t, r.res)
                       ELSE IF Children(r, from) = {} THEN Finish(t, "Ok")
                       ELSE \E order \in Orders(Children(r, from)) :
                               GoOn(t, [thr[t] EXCEPT !.pc = "move", !.todo = order])
           ELSE \E r \in RenameReg(St, from, to) :
                    /\ files' = r.files
                    /\ cells' = r.cells
                    /\ Finish(t, r.res)
    /\ UNCHANGED <<cwd, handles, ret, meta, listing, other>>

\* One turn of the loop of move_dir: self.rename(&child, &new_path)?
RenameStep(t) ==
    /\ thr[t].pc = "move"
    /\ LET child == Head(thr[t].todo)
       IN  \E r \in RenameReg(St, child, Rebase(child, thr[t].path, thr[t].to)) :
               /\ files' = r.files
               /\ cells' = r.cells
               /\ IF r.res # "Ok" THEN Finish(t, r.res)
                  ELSE IF Len(thr[t].todo) = 1 THEN Finish(t, "Ok")
                  ELSE GoOn(t, [thr[t] EXCEPT !.todo = Tail(@)])
    /\ UNCHANGED <<cwd, handles, ret, meta, listing, other>>

\* read_dir: the names found, whatever their order
ReadDirBody(t) ==
    /\ thr[t].pc = "body" /\ thr[t].op = "read_dir"
    /\ \E r \in ReadDirReg(St, thr[t].path) :
           GoOn(t, [thr[t] EXCEPT !.pc = "return", !.res = r.res,
                       !.entries = {r.entries[i] : i \in DOMAIN r.entries}])
    /\ UNCHANGED <<files, cwd, cells, handles, ret, meta, listing, other>>

\* create up to the assignment of write_file: get_file_writable, and
\* create_file if the path is absent; the handle is dropped at once
CreateBody(t) ==
    /\ thr[t].pc = "body" /\ thr[t].op = "create"
    /\ IF GetFileWritable(St, thr[t].path) = "Ok"
       THEN /\ GoOn(t, [thr[t] EXCEPT !.pc = "truncate"])
            /\ UNCHANGED <<files, cells>>
       ELSE LET r == CreateReg(St, thr[t].path)
            IN  /\ files' = r.files
                /\ cells' = r.cells
                /\ Finish(t, r.res)
    /\ UNCHANGED <<cwd, handles, ret, meta, listing, other>>

\* *f.contents.borrow_mut() = buf.to_vec(), with the registry guard held
CreateTruncate(t) ==
    /\ thr[t].pc = "truncate"
    /\ IF IsFileAt(St, thr[t].path)
       THEN /\ Free(ContentsLock(files[thr[t].path].id))
            /\ cells' = [cells EXCEPT ![files[thr[t].path].id].contents = <<>>]
            /\ Finish(t, "Ok")
       ELSE /\ cells' = cells
            /\ Finish(t, "NotFound")
    /\ UNCHANGED <<files, cwd, handles, ret, meta, listing, other>>

\* A call on the thread's handle begins: verify_access, and the next thing
\* is self.f.contents.borrow()
CallHandle(t, op, buf, n) ==
    /\ thr[t].pc = "idle" /\ Len(thr[t].did) < MaxOps
    /\ handles[t] # Closed
    /\ LET refused == \/ op = "read" /\ handles[t].access # "Read"
                      \/ op \in {"write", "set_len"} /\ handles[t].access # "Write"
       IN  GoOn(t, [IdleThread EXCEPT !.pc = IF refused THEN "return" ELSE "contents",
                                      !.res = IF refused THEN "Other" ELSE "none",
                                      !.op = op, !.buf = buf, !.n = n,
                                      !.did = thr[t].did])
    /\ UNCHANGED <<files, cwd, cells, handles, ret, meta, listing, other>>

\* The thread's handle and the bytes of its cell
Own(t) == handles[t]
OwnContents(t) == cells[handles[t].id].contents

\* With the guard taken, the thread stands before its first piece: a read
\* has computed the count it will copy
Locked(t) ==
    [thr[t] EXCEPT
        !.holds = @ \cup {ContentsLock(Own(t).id)},
        !.seen = <<St>>,
        !.k = 0,
        !.n = IF thr[t].op = "read"
              THEN IF Own(t).pos < Len(OwnContents(t))
                   THEN Min(Len(OwnContents(t)) - Own(t).pos, thr[t].n) ELSE 0
              ELSE thr[t].n,
        !.pc = CASE thr[t].op = "read" -> "r_copy"
                 [] thr[t].op = "write" -> "w_resize"
                 [] thr[t].op = "set_len" -> "resize"
                 [] thr[t].op = "seek" -> "s_end"
                 [] thr[t].op = "metadata" -> "m_len"]

\* contents.lock() that does not wait
LockContentsUnguarded(t) ==
    /\ thr[t].pc = "contents"
    /\ GoOn(t, Locked(t))
    /\ UNCHANGED <<files, cwd, cells, handles, ret, meta, listing, other>>

\* SharedContents::borrow / borrow_mut: self.0.lock().unwrap()
LockContents(t) ==
    /\ thr[t].pc = "contents"
    /\ Free(ContentsLock(Own(t).id))
    /\ GoOn(t, Locked(t))
    /\ UNCHANGED <<files, cwd, cells, handles, ret, meta, listing, other>>

\* The byte at place i (from 1), 0 where the vector has none
ByteAt(c, i) == IF i \in DOMAIN c THEN c[i] ELSE 0

\* read: one byte of copy_from_slice
ReadCopy(t) ==
    /\ thr[t].pc = "r_copy" /\ thr[t].k < thr[t].n
    /\ GoOn(t, [thr[t] EXCEPT !.k = @ + 1,
                   !.data = Append(@, ByteAt(OwnContents(t), Own(t).pos + thr[t].k + 1))])
    /\ UNCHANGED <<files, cwd, cells, handles, ret, meta, listing, other>>

\* read: self.pos += len; Ok(len)
ReadDone(t) ==
    /\ thr[t].pc = "r_copy" /\ thr[t].k = thr[t].n
    /\ handles' = [handles EXCEPT ![t].pos = @ + thr[t].n]
    /\ Finish(t, "Ok")
    /\ UNCHANGED <<files, cwd, cells, ret, meta, listing, other>>

\* write: contents.resize(pos, 0) if the cursor is beyond the end, and copy_len
WriteResize(t) ==
    /\ thr[t].pc = "w_resize"
    /\ LET c1 == IF Own(t).pos > Len(OwnContents(t))
                 THEN Resize(OwnContents(t), Own(t).pos) ELSE OwnContents(t)
       IN  /\ cells' = [cells EXCEPT ![Own(t).id].contents = c1]
           /\ GoOn(t, [thr[t] EXCEPT !.pc = "w_copy", !.k = 0,
                          !.n = Min(Len(thr[t].buf), Len(c1) - Own(t).pos)])
    /\ UNCHANGED <<files, cwd, handles, ret, meta, listing, other>>

\* write: one byte of copy_from_slice
WriteCopy(t) ==
    /\ thr[t].pc = "w_copy" /\ thr[t].k < thr[t].n
    /\ cells' = [cells EXCEPT ![Own(t).id].contents =
                    [i \in DOMAIN @ |-> IF i = Own(t).pos + thr[t].k + 1
                                        THEN thr[t].buf[thr[t].k + 1] ELSE @[i]]]
    /\ GoOn(t, [thr[t] EXCEPT !.k = @ + 1])
    /\ UNCHANGED <<files, cwd, handles, ret, meta, listing, other>>

\* write: contents.extend_from_slice(&buf[copy_len..]); self.pos += buf.len()
WriteExtend(t) ==
    /\ thr[t].pc = "w_copy" /\ thr[t].k = thr[t].n
    /\ cells' = [cells EXCEPT ![Own(t).id].contents =
                    @ \o SubSeq(thr[t].buf, thr[t].n + 1, Len(thr[t].buf))]
    /\ handles' = [handles EXCEPT ![t].pos = @ + Len(thr[t].buf)]
    /\ Finish(t, "Ok")
    /\ UNCHANGED <<files, cwd, ret, meta, listing, other>>

\* set_len: contents.resize(size, 0)
SetLenBody(t) ==
    /\ thr[t].pc = "resize"
    /\ cells' = [cells EXCEPT ![Own(t).id].contents = Resize(@, thr[t].n)]
    /\ Finish(t, "Ok")
    /\ UNCHANGED <<files, cwd, handles, ret, meta, listing, other>>

\* seek(SeekFrom::End(0)): self.f.contents.borrow().len() as i64 + offs
SeekEnd(t) ==
    /\ thr[t].pc = "s_end"
    /\ \E r \in SeekHandle(Own(t), OwnContents(t), "End", 0) :
           /\ handles' = [handles EXCEPT ![t].pos = r.pos]
           /\ GoOn(t, [thr[t] EXCEPT !.pc = "return", !.res = r.res, !.data = r.at])
    /\ UNCHANGED <<files, cwd, cells, ret, meta, listing, other>>

\* FakeMetadata::from(&File): f.contents.borrow().len(), the guard dropped
\* at the end of the expression
MetadataLen(t) ==
    /\ thr[t].pc = "m_len"
    /\ GoOn(t, [thr[t] EXCEPT !.pc = "m_mode", !.holds = {},
                              !.data = <<Len(OwnContents(t))>>])
    /\ UNCHANGED <<files, cwd, cells, handles, ret, meta, listing, other>>

\* FakeMetadata::from(&File): FakePermissions::from(&f.mode)
MetadataMode(t) ==
    /\ thr[t].pc = "m_mode"
    /\ GoOn(t, [thr[t] EXCEPT !.pc = "return", !.res = "Ok",
                              !.data = @ \o <<cells[Own(t).id].mode>>])
    /\ UNCHANGED <<files, cwd, cells, handles, ret, meta, listing, other>>

\* A return that keeps its guards
ThreadReturnKeepingGuards(t) ==
    /\ thr[t].pc = "return"
    /\ GoOn(t, [IdleThread EXCEPT !.did = Append(thr[t].did, thr[t].op),
                                  !.holds = thr[t].holds])
    /\ UNCHANGED <<files, cwd, cells, handles, ret, meta, listing, other>>

\* The call returns: its guards are dropped and the result is the caller's
ThreadReturn(t) ==
    /\ thr[t].pc = "return"
    /\ GoOn(t, [IdleThread EXCEPT !.did = Append(thr[t].did, thr[t].op)])
    /\ UNCHANGED <<files, cwd, cells, handles, ret, meta, listing, other>>

\* The file system the threads are given: /a with the files /a/a, of
\* MaxLen zero bytes, and /a/ab
ThreadDir == <<NameSeq[1]>>
ThreadFile == <<NameSeq[1], NameSeq[1]>>
ThreadNew == <<NameSeq[2]>>
ThreadSetup ==
    LET s1 == CreateDirReg([files |-> (Root :> DirNode(DefaultMode)), cells |-> <<>>],
                           ThreadDir)
        s2 == CreateReg(s1, ThreadFile)
        id == s2.files[ThreadFile].id
        s3 == [s2 EXCEPT !.cells[id].contents =
                  SetLenHandle(NewHandle(id, "Write"), @, MaxLen).contents]
    IN  CreateReg(s3, <<NameSeq[1], NameSeq[2]>>)

\* The bytes thread t writes
ThreadBuf(t) == [i \in 1..MaxLen |-> t]

\* create_dir, create kept by thread 1, set_len, create, and the second
\* thread's open or open_writable
InitThreads ==
    /\ files = ThreadSetup.files
    /\ cells = ThreadSetup.cells
    /\ cwd = Root
    /\ \E access \in {"Read", "Write"} :
           handles = <<NewHandle(files[ThreadFile].id, "Write"),
                       NewHandle(files[ThreadFile].id, access)>>
    /\ ret = Idle
    /\ meta = NoMeta
    /\ listing = NoListing
    /\ other = NewRegistry
    /\ thr = NoThreads

\* The calls a thread makes
Calls(t) ==
    \/ Call(t, "remove_dir_all", ThreadDir, Root)
    \/ Call(t, "rename", ThreadDir, ThreadNew)
    \/ Call(t, "read_dir", ThreadDir, Root)
    \/ Call(t, "create", ThreadFile, Root)
    \/ CallHandle(t, "read", <<>>, MaxLen)
    \/ CallHandle(t, "write", ThreadBuf(t), 0)
    \/ CallHandle(t, "set_len", <<>>, 1)
    \/ CallHandle(t, "seek", <<>>, 0)
    \/ CallHandle(t, "metadata", <<>>, 0)

\* The steps of a call that has begun
Pieces(t) ==
    \/ LockRegistry(t)
    \/ RemoveDirAllCheck(t)
    \/ RemoveDirAllStep(t)
    \/ RenameStart(t)
    \/ RenameStep(t)
    \/ ReadDirBody(t)
    \/ CreateBody(t)
    \/ CreateTruncate(t)
    \/ LockContents(t)
    \/ ReadCopy(t)
    \/ ReadDone(t)
    \/ WriteResize(t)
    \/ WriteCopy(t)
    \/ WriteExtend(t)
    \/ SetLenBody(t)
    \/ SeekEnd(t)
    \/ MetadataLen(t)
    \/ MetadataMode(t)
    \/ ThreadReturn(t)

ThreadStep(t) == Calls(t) \/ Pieces(t)

NextThreads == \E t \in Threads : ThreadStep(t)

SpecThreads == InitThreads /\ [][NextThreads]_vars

\* Each thread makes one call, if any.  A thread need not call, but a thread
\* in a call that can take its next step is scheduled in the end.
LiveStep(t) == (thr[t].did = <<>> /\ Calls(t)) \/ Pieces(t)

NextLive == \E t \in Threads : LiveStep(t)

LiveThreads == InitThreads /\ [][NextLive]_vars /\ \A t \in Threads : WF_vars(Pieces(t))

----------------------------------------------------------------------------
(* Atomicity of the facade *)

\* Thread t is between two map operations of its call
InBody(t) == thr[t].pc \in {"body", "remove", "move", "truncate"}

\* The step is thread t's
Acts(t) == thr'[t] # thr[t]

\* With this step thread t's facade call is over but for the return
FacadeDone(t) == InBody(t) /\ thr'[t].pc = "return"

\* What the call of thread t leaves of the registry it found when it took
\* the lock, if it ran alone: the possible [files, res]
AloneFrom(t) ==
    LET st == thr[t].seen[1]
    IN  CASE thr[t].op = "remove_dir_all" ->
                {[files |-> RemoveDirAllReg(st, thr[t].path).files,
                  res |-> RemoveDirAllReg(st, thr[t].path).res]}
          [] thr[t].op = "rename" ->
                {[files |-> r.files, res |-> r.res] :
                    r \in RenameReg(st, thr[t].path, thr[t].to)}
          [] thr[t].op = "create" ->
                {[files |-> CreateReg(st, thr[t].path).files,
                  res |-> CreateReg(st, thr[t].path).res]}
          [] thr[t].op = "read_dir" ->
                {[files |-> st.files, res |-> GetDir(st, thr[t].path)]}

\* C35: every facade operation is atomic with respect to the registry: a
\* thread looks at or changes the map only with the registry guard, which
\* one thread has at a time, so no thread acts while another stands between
\* two steps of remove_dir_all or of a directory rename; what a call leaves
\* and returns is what it would when run alone from the registry it found,
\* and read_dir of the directory finds all its entries or none.
C35_FacadeIsAtomic ==
    [][\A t \in Threads :
          /\ Acts(t) /\ (InBody(t) \/ InBody(t)' \/ files' # files) =>
                \A u \in Threads \ {t} : ~InBody(u) /\ RegistryLock \notin thr[u].holds
          /\ InBody(t) => RegistryLock \in thr[t].holds
          /\ FacadeDone(t) =>
                /\ [files |-> files', res |-> thr'[t].res] \in AloneFrom(t)
                /\ thr[t].op = "read_dir" /\ thr'[t].res = "Ok" =>
                      thr'[t].entries = Children(thr[t].seen[1], thr[t].path)
                      /\ thr'[t].entries \in {{}, Children(ThreadSetup, ThreadDir)}]_vars

\* remove_dir_all has removed one of the two files, and the other thread
\* waits for the registry with its read_dir
C35_ReadDirWaitsForRemoveDirAll ==
    \E t, u \in Threads :
        /\ thr[t].op = "remove_dir_all" /\ thr[t].pc = "remove" /\ Len(thr[t].todo) = 2
        /\ thr[u].op = "read_dir" /\ thr[u].pc = "registry"

\* The directory has its new name and one of its files still the old one,
\* and the other thread waits for the registry with its create
C35_CreateWaitsForRename ==
    \E t, u \in Threads :
        /\ thr[t].op = "rename" /\ thr[t].pc = "move" /\ Len(thr[t].todo) = 1
        /\ IsDirAt(St, ThreadNew) /\ ~IsPresent(St, ThreadDir)
        /\ Cardinality(Descendants(St, ThreadDir)) = 1
        /\ thr[u].op = "create" /\ thr[u].pc = "registry"

\* read_dir has found the directory gone, after the other thread's rename
C35_ReadDirAfterRename ==
    \E t, u \in Threads :
        /\ thr[t].op = "read_dir" /\ thr[t].pc = "return" /\ thr[t].res = "NotFound"
        /\ thr[u].did = <<"rename">>

----------------------------------------------------------------------------
(* Serialization on the content cell *)

\* Thread t is between two steps of a handle call, with the guard
InCell(t) == thr[t].pc \in {"r_copy", "w_resize", "w_copy", "resize", "s_end", "m_len"}

\* With this step thread t's handle call is over but for the return
HandleDone(t) == InCell(t) /\ thr'[t].pc = "return"

\* The bytes thread t found in the cell when it took the guard
Found(t) == thr[t].seen[1].cells[Own(t).id].contents

\* Each thread is back from one call, a write
BothWrote == \A t \in Threads : thr[t].pc = "idle" /\ thr[t].did = <<"write">>

\* C37: operations on handles sharing one file are serialized on its content
\* cell: one thread has the guard of the cell at a time; a write leaves the
\* bytes it found overwritten from its cursor, a set_len leaves them resized
\* and a read returns bytes of the content it found, whatever the other
\* thread does meanwhile; after one write of each thread from cursor 0 the
\* content is what one of the two wrote, never some bytes of each.
C37_HandleCallsAreSerialized ==
    [][/\ \A t \in Threads :
            /\ InCell(t) =>
                  /\ ContentsLock(Own(t).id) \in thr[t].holds
                  /\ \A u \in Threads \ {t} :
                        Own(u).id = Own(t).id => ~InCell(u)
            /\ HandleDone(t) /\ thr[t].op = "write" =>
                  /\ cells'[Own(t).id].contents = Overwritten(Found(t), Own(t).pos, thr[t].buf)
                  /\ handles'[t].pos = Own(t).pos + Len(thr[t].buf)
            /\ HandleDone(t) /\ thr[t].op = "set_len" =>
                  cells'[Own(t).id].contents =
                      [i \in 1..thr[t].n |-> ByteAt(Found(t), i)]
            /\ HandleDone(t) /\ thr[t].op = "read" =>
                  /\ thr'[t].data = SubSeq(Found(t), Own(t).pos + 1,
                                          Min(Len(Found(t)), Own(t).pos + MaxLen))
                  /\ handles'[t].pos = Own(t).pos + Len(thr'[t].data)
       /\ BothWrote' =>
            cells'[handles'[1].id].contents \in {ThreadBuf(t) : t \in Threads}]_vars

\* One thread has copied the first byte of its write, and the other waits
\* for the cell with a write of its own
C37_WriteWaitsForWrite ==
    \E t, u \in Threads :
        /\ thr[t].op = "write" /\ thr[t].pc = "w_copy" /\ thr[t].k = 1
        /\ thr[u].op = "write" /\ thr[u].pc = "contents"
        /\ OwnContents(t) = <<t, 0>>

\* One thread has copied the first byte of its write, and the other waits
\* for the cell with a read
C37_ReadWaitsForWrite ==
    \E t, u \in Threads :
        /\ thr[t].op = "write" /\ thr[t].pc = "w_copy" /\ thr[t].k = 1
        /\ thr[u].op = "read" /\ thr[u].pc = "contents"

\* Both threads have written
C37_BothWrote == BothWrote /\ cells[handles[1].id].contents = ThreadBuf(1)

----------------------------------------------------------------------------
(* Freedom from deadlock *)

NoLock == <<"none", 0>>

\* The mutex thread t is about to lock
Wanted(t) ==
    CASE thr[t].pc = "registry" -> RegistryLock
      [] thr[t].pc = "contents" -> ContentsLock(Own(t).id)
      [] thr[t].pc = "truncate" /\ IsFileAt(St, thr[t].path) ->
            ContentsLock(files[thr[t].path].id)
      [] OTHER -> NoLock

\* Thread t waits: another thread has the mutex it is about to lock
Blocked(t) == Wanted(t) # NoLock /\ ~Free(Wanted(t))

HandleOps == {"read", "write", "seek", "set_len", "metadata"}

\* The order of locking, and no thread waiting for a thread that waits
LockOrder ==
    \A t \in Threads :
        /\ thr[t].pc \in {"idle", "registry", "contents"} => thr[t].holds = {}
        /\ thr[t].pc = "truncate" => thr[t].holds = {RegistryLock}
        /\ thr[t].op \in HandleOps => RegistryLock \notin thr[t].holds
        /\ \A id \in DOMAIN cells :
              ContentsLock(id) \in thr[t].holds =>
                  thr[t].holds = {ContentsLock(id)} /\ Wanted(t) = NoLock
        /\ Blocked(t) =>
              \E u \in Threads \ {t} : Wanted(t) \in thr[u].holds /\ ~Blocked(u)

\* C36: no interleaving of facade operations and handle operations on
\* shared files deadlocks: the registry mutex is locked with no guard held
\* and a cell's mutex with at most the registry guard held, a handle
\* operation never has the registry guard, a thread with the guard of a
\* cell waits for no mutex, a thread waits only for a thread that does not
\* wait, and every call that has begun returns with its guards dropped.
C36_NoDeadlock ==
    /\ []LockOrder
    /\ \A t \in Threads : (thr[t].pc # "idle") ~> (thr[t].pc = "idle" /\ thr[t].holds = {})

\* A create has the registry guard and waits for the cell, whose guard the
\* other thread has in the middle of its write
C36_FacadeWaitsForHandle ==
    \E t, u \in Threads :
        /\ thr[t].pc = "truncate" /\ Blocked(t)
        /\ thr[u].op = "write" /\ thr[u].pc = "w_copy" /\ Wanted(t) \in thr[u].holds

\* A handle call has the guard of the cell while the other thread has the
\* guard of the registry, and neither waits
C36_BothGuardsHeld ==
    \E t, u \in Threads :
        /\ thr[t].pc = "remove" /\ RegistryLock \in thr[t].holds
        /\ thr[u].pc = "r_copy" /\ ContentsLock(Own(u).id) \in thr[u].holds
====
